---- MODULE Spec2Model ----
(***************************************************************************)
(* Course-content generator: the batch/retry loop around the model calls   *)
(* (agent/course_agent.py, agent/course_agent_langchain.py,                *)
(* agent/roadmap_agent.py) and the natural-language parameter extractor    *)
(* (utils/extract_params.py) with the /api/validate handler                *)
(* (app_flask.py).                                                         *)
(*                                                                         *)
(* Spec        one invocation of an agent entry point; every step is the   *)
(*             code that runs between one model response and the next      *)
(*             model request (or the return / raise).                      *)
(* SpecExtract extract_course_parameters applied to a prompt, followed by  *)
(*             the /api/validate handler.                                  *)
(* SpecExtractNumbers, SpecExtractLevels                                   *)
(*             the same on prompts with numbers around the limits and with *)
(*             difficulty synonyms.                                        *)
(* SpecCleanup the cleanup of a model response (fence markers, json.loads) *)
(*             in generate_course_outline, _generate_lessons_batch and     *)
(*             _call_api_and_parse.                                        *)
(***************************************************************************)
EXTENDS Integers, Sequences, FiniteSets, TLC

\* ------------------------------------------------------------------ bounds
\* largest lessons_per_module / num_lessons requested (the smallest is -1)
MaxLessons == 3
\* most entries in the "modules" list of an outline returned by the model
MaxModules == 2

\* ------------------------------------------------------- program constants
\* min(2, remaining)
BatchLimit == 2
\* "duration_minutes": 45 of the fallback lesson
PlaceholderMinutes == 45
\* if len(keyword) > 3
KeywordMinLen == 3

VARIABLES
    op,          \* entry point invoked: "plain", "langchain", "roadmap", "none"
    pc,          \* position of the invocation
    topic,       \* argument topic (a string, as a tuple of characters)
    n,           \* argument lessons_per_module / num_lessons
    outline,     \* the outline dict finally used
    requests,    \* every prompt sent to the model so far, in order
    modIdx,      \* enumerate(modules) index of the module in work, 1-based
    all_lessons, \* generate_module_content: all_lessons
    remaining,   \* generate_module_content: remaining
    batch_num,   \* generate_module_content: batch_num
    modules,     \* course_data["modules"]
    title,       \* course_data["title"]
    error,       \* exception that left the invocation, "none" if none
    last,        \* outcome of the model call handled by the last step
    answers,     \* answers[i]: whether requests[i] was answered with a
                 \* usable value, and the number of lessons it held
    prompt,      \* extract_course_parameters: argument prompt (tokens)
    params,      \* extract_course_parameters: returned params
    missing,     \* extract_course_parameters: returned missing_fields
    xpc,         \* position of the extractor run
    response,    \* /api/validate: the JSON response and its HTTP status
    course_dict, \* generate_markdown_course / generate_html_course: argument
    md,          \* generate_markdown_course: returned text, None before
    html,        \* generate_html_course: returned text, None before
    api_key,     \* app_flask: whether GOOGLE_API_KEY is set
    threads,     \* app_flask: requests the server handles at a time
    course_storage, \* app_flask: the module-level dict course_storage
    inflight,    \* app_flask: the handlers that have not responded yet
    started,     \* app_flask: number of requests received so far
    log,         \* app_flask: the requests answered so far, in order
    roadmap_args, \* generate_roadmap_from_modules: its arguments
    result,      \* generate_roadmap_from_modules: result, None before
    roadmap_data, \* generate_roadmap_from_modules: roadmap_data, None before
    custom_learning_outcomes, \* argument custom_learning_outcomes
    learning_outcomes, \* course_data["learning_outcomes"]
    reply,       \* response cleanup: response.text and how it was put together
    content,     \* response cleanup: the text handed to json.loads, None before
    returned,    \* response cleanup: what the caller returned or raised
    cpc          \* response cleanup: the function that called the model

vars == <<op, pc, topic, n, outline, requests, modIdx, all_lessons, remaining,
          batch_num, modules, title, error, last, answers,
          prompt, params, missing, xpc, response,
          course_dict, md, html,
          api_key, threads, course_storage, inflight, started, log,
          roadmap_args, result, roadmap_data,
          custom_learning_outcomes, learning_outcomes,
          reply, content, returned, cpc>>

agentVars == <<op, pc, topic, n, outline, requests, modIdx, all_lessons,
               remaining, batch_num, modules, title, error, last,
               answers>>

extractVars == <<prompt, params, missing, xpc, response>>
exportVars == <<course_dict, md, html>>
flaskVars == <<api_key, threads, course_storage, inflight, started, log>>
roadmapVars == <<roadmap_args, result, roadmap_data>>
outcomeVars == <<custom_learning_outcomes, learning_outcomes>>
cleanupVars == <<reply, content, returned, cpc>>

\* what the agents, the extractor and the exporters leave alone
outsideAgent == <<extractVars, exportVars, flaskVars, roadmapVars, outcomeVars,
                   cleanupVars>>
outsideExtract == <<agentVars, exportVars, flaskVars, roadmapVars, outcomeVars,
                   cleanupVars>>
outsideExport == <<agentVars, extractVars, flaskVars, roadmapVars, outcomeVars,
                   cleanupVars>>
outsideFlask == <<agentVars, extractVars, exportVars, roadmapVars, outcomeVars,
                   cleanupVars>>
outsideRoadmap == <<extractVars, exportVars, flaskVars, outcomeVars,
                    cleanupVars>>
outsideOutline == <<extractVars, exportVars, flaskVars, roadmapVars,
                    cleanupVars>>

Min(a, b) == IF a < b THEN a ELSE b

\* ----------------------------------------------------------------- strings
\* A Python str is a tuple of one-character strings.

\* str.lower() on the characters the inputs below use
LowerChar(c) ==
    CASE c = "A" -> "a"
      [] c = "J" -> "j"
      [] c = "L" -> "l"
      [] c = "Q" -> "q"
      [] c = "S" -> "s"
      [] c = "V" -> "v"
      [] OTHER -> c

Lower(s) == [i \in 1..Len(s) |-> LowerChar(s[i])]

\* str.capitalize() on the characters the inputs below use: first character
\* upper-cased, the rest lower-cased
UpperChar(c) ==
    CASE c = "b" -> "B"
      [] c = "a" -> "A"
      [] c = "i" -> "I"
      [] OTHER -> c

Capitalize(s) ==
    [i \in 1..Len(s) |-> IF i = 1 THEN UpperChar(s[i]) ELSE LowerChar(s[i])]

\* length of the leading run of non-whitespace characters of s
RECURSIVE WordLen(_)
WordLen(s) ==
    IF s = <<>> \/ Head(s) = " " THEN 0 ELSE 1 + WordLen(Tail(s))

\* str.split(): the maximal runs of non-whitespace characters, in order
RECURSIVE Split(_)
Split(s) ==
    IF s = <<>> THEN <<>>
    ELSE IF Head(s) = " " THEN Split(Tail(s))
    ELSE <<SubSeq(s, 1, WordLen(s))>> \o Split(SubSeq(s, WordLen(s) + 1, Len(s)))

\* k in t
Contains(t, k) ==
    \E i \in 0..(Len(t) - Len(k)) : SubSeq(t, i + 1, i + Len(k)) = k


\* ------------------------------------------------------------------ inputs
\* topics: "Java", "sql", "lisp to sql"
TopicJava == <<"J", "a", "v", "a">>
TopicSql == <<"s", "q", "l">>
TopicLispToSql == <<"l", "i", "s", "p", " ", "t", "o", " ", "s", "q", "l">>
Topics == {TopicJava, TopicSql, TopicLispToSql}

\* titles the model answers with: "JavaScript", "learn SQL", "LISP", "how to"
TitleJavaScript == <<"J", "a", "v", "a", "S", "c", "r", "i", "p", "t">>
TitleLearnSql == <<"l", "e", "a", "r", "n", " ", "S", "Q", "L">>
TitleLisp == <<"L", "I", "S", "P">>
TitleHowTo == <<"h", "o", "w", " ", "t", "o">>
Titles == {TitleJavaScript, TitleLearnSql, TitleLisp, TitleHowTo}

\* the difficulty argument: "beginner"
Difficulty == <<"b", "e", "g", "i", "n", "n", "e", "r">>

\* the "modules" list of an outline with m entries
OutlineModules(m) ==
    [i \in 1..m |-> [title |-> <<"module title", i>>,
                     description |-> <<"module description", i>>]]

\* None and a value of an optional parameter or dict key
None == <<>>
Some(v) == <<v>>

\* the "learning_outcomes" list of the model's outline
ModelOutcomes == <<"outcome 1", "outcome 2", "outcome 3">>

\* the values of custom_learning_outcomes tried: not given, empty, and a
\* list that shares an entry with the outline's, in another order
CustomOutcomes == {None, Some(<<>>), Some(<<"outcome 9", "outcome 1">>)}

\* the outline dicts json.loads can return: the "title" key present or not,
\* 0..MaxModules modules (a missing "modules" key reads as [] at line 303)
Outlines ==
    { [has_title |-> h, title |-> t, modules |-> OutlineModules(m),
       learning_outcomes |-> Some(ModelOutcomes)] :
        h \in {TRUE}, t \in Titles, m \in 0..MaxModules }
    \cup
    { [has_title |-> FALSE, title |-> <<>>, modules |-> OutlineModules(m),
       learning_outcomes |-> Some(ModelOutcomes)] :
        m \in 0..MaxModules }

\* duration_weeks: int = 4, the default of generate_complete_course
DurationWeeks == 4

\* max(4, duration_weeks), the number of modules the prompts ask for
MinModules == 4
RequestedModules ==
    IF DurationWeeks > MinModules THEN DurationWeeks ELSE MinModules

\* outlines with one module more than asked for
LongOutlines ==
    { [has_title |-> TRUE, title |-> t,
       modules |-> OutlineModules(RequestedModules + 1),
       learning_outcomes |-> Some(ModelOutcomes)] : t \in Titles }

\* outlines without the "learning_outcomes" key
BareOutlines ==
    { [has_title |-> TRUE, title |-> t, modules |-> OutlineModules(1),
       learning_outcomes |-> None] : t \in Titles }

\* a title that is the topic "sql", letter for letter, and more: "sql 101"
TitleSql101 == <<"s", "q", "l", " ", "1", "0", "1">>

\* an outline with that title
SqlOutlines ==
    { [has_title |-> TRUE, title |-> TitleSql101, modules |-> OutlineModules(1),
       learning_outcomes |-> Some(ModelOutcomes)] }

\* the outlines answered to an invocation with num_lessons lessons per
\* module: the long ones, the bare ones and "sql 101" are tried where a
\* module needs no model call
OutlinesFor(num_lessons) ==
    IF num_lessons <= 0
    THEN Outlines \cup LongOutlines \cup BareOutlines \cup SqlOutlines
    ELSE Outlines

\* the values of custom_learning_outcomes tried with num_lessons lessons
\* per module
CustomOutcomesFor(num_lessons) ==
    IF num_lessons <= 0 THEN CustomOutcomes ELSE {None}

\* LearningOutcomes appending the outline's outcomes to the custom ones
LearningOutcomes_Merged(custom, outl) ==
    (IF custom = None THEN <<>> ELSE custom[1]) \o
    (IF outl.learning_outcomes = None THEN <<>> ELSE outl.learning_outcomes[1])

\* custom_learning_outcomes if custom_learning_outcomes else
\* outline.get("learning_outcomes", []); the plain agent passes no custom
\* list
LearningOutcomes(custom, outl) ==
    IF custom # None /\ custom[1] # <<>>
    THEN custom[1]
    ELSE IF outl.learning_outcomes = None THEN <<>>
    ELSE outl.learning_outcomes[1]

\* OutlineModuleList cut to the number of modules asked for
OutlineModuleList_Truncated(outl) ==
    SubSeq(outl.modules, 1, Min(Len(outl.modules), RequestedModules))

\* modules = outline.get("modules", [])
OutlineModuleList(outl) == outl.modules

NoOutline ==
    [has_title |-> FALSE, title |-> <<>>, modules |-> <<>>,
     learning_outcomes |-> None]

\* the values of lessons_per_module tried
LessonCounts == (-1)..MaxLessons

\* outcome of one outline / roadmap model call
CallOutcomes == {"ok", "raise", "empty", "unparsable"}

\* lesson_data.get("duration_minutes", 45)
DefaultLessonMinutes == 45

\* "duration_minutes" of the i-th lesson dict of a batch response: 30 and 50
\* minutes, then a dict without the key, then 60 minutes
ModelMinutes(i) ==
    CASE i = 1 -> 30
      [] i = 2 -> 50
      [] i = 3 -> 0
      [] OTHER -> 60

\* the i-th lesson dict of a batch response; has_duration tells whether the
\* dict holds the key "duration_minutes"
ModelLesson(i) ==
    [title |-> <<"Generated lesson", i>>,
     has_duration |-> (i # 3),
     duration_minutes |-> ModelMinutes(i),
     learning_objectives |-> <<"objective">>,
     content |-> "generated text",
     key_points |-> <<"point">>,
     activities |-> <<"activity">>,
     assessment_questions |-> <<[question |-> "q", answer |-> "a"]>>]

\* lengths of the list a batch call that asked for b lessons parses to: one
\* fewer, as many, or one more than asked for
ReturnedCounts(b) == { c \in (b - 1)..(b + 1) : c >= 1 }

\* outcomes of one lesson batch call that asked for b lessons: the call
\* raises, the text does not parse, the parsed list is empty, or the parsed
\* list holds count lesson dicts (fewer, as many or more than asked for)
BatchOutcomes(b) ==
    { [kind |-> k, count |-> 0] : k \in {"raise", "unparsable", "empty"} }
    \cup { [kind |-> "lessons", count |-> c] : c \in ReturnedCounts(b) }

NoOutcome == [kind |-> "none", count |-> 0]

\* --------------------------------------------------------- the model calls
Request(kind, module, batch, size) ==
    [kind |-> kind, module |-> module, batch_num |-> batch, size |-> size]

\* what came back for a request: a usable parsed value or not, and the
\* number of lessons in it
Answer(ok, count) == [ok |-> ok, count |-> count]

\* TopicMatch without the len(keyword) > 3 filter
\* generated_title = outline.get("title", "").lower()
GeneratedTitle(outl) == Lower(IF outl.has_title THEN outl.title ELSE <<>>)

TopicMatch_AnyLength(outl, top) ==
    LET topic_keywords == Split(Lower(top))
    IN  \E i \in 1..Len(topic_keywords) :
            Contains(GeneratedTitle(outl), topic_keywords[i])

\* outline.get("title", "").lower() ... any(keyword in generated_title
\*   for keyword in topic_keywords if len(keyword) > 3)
TopicMatch(outl, top) ==
    LET topic_keywords == Split(Lower(top))
    IN  \E i \in 1..Len(topic_keywords) :
            /\ Len(topic_keywords[i]) > KeywordMinLen
            /\ Contains(GeneratedTitle(outl), topic_keywords[i])

\* _generate_lessons_batch: the parsed list, [] when the try block raised
GenerateLessonsBatch(o) ==
    IF o.kind = "lessons" THEN [i \in 1..o.count |-> ModelLesson(i)] ELSE <<>>

\* the fallback lesson appended when all_lessons holds len lessons
Placeholder(len) ==
    [title |-> <<"Lesson", len + 1>>,
     has_duration |-> TRUE,
     duration_minutes |-> PlaceholderMinutes,
     learning_objectives |-> <<"To be developed">>,
     content |-> "Content to be developed.",
     key_points |-> <<"To be developed">>,
     activities |-> <<"Activity to be developed">>,
     assessment_questions |->
         <<[question |-> "To be developed", answer |-> "To be developed"]>>]

\* AppendPlaceholders with the title numbered by the loop index i + 1
AppendPlaceholders_LoopIndex(all, b) ==
    all \o [i \in 1..b |-> Placeholder(i - 1)]

\* for i in range(batch_size): all_lessons.append({...})
RECURSIVE AppendPlaceholders(_, _)
AppendPlaceholders(all, b) ==
    IF b <= 0 THEN all
    ELSE AppendPlaceholders(Append(all, Placeholder(Len(all))), b - 1)

\* ExtendLessons with a single placeholder for a failed batch
ExtendLessons_OnePlaceholder(all, lessons, b) ==
    IF lessons # <<>> THEN all \o lessons ELSE Append(all, Placeholder(Len(all)))

\* if lessons: all_lessons.extend(lessons) else: <fallback>
ExtendLessons(all, lessons, b) ==
    IF lessons # <<>> THEN all \o lessons ELSE AppendPlaceholders(all, b)

\* BatchSize without the cap of 2
BatchSize_NoCap(rem) == rem

\* batch_size = min(2, remaining)
BatchSize(rem) == Min(BatchLimit, rem)

\* NextRemaining taking a full batch off whatever is left
NextRemaining_FullBatch(rem) == rem - BatchLimit

\* remaining -= batch_size
NextRemaining(rem) == rem - BatchSize(rem)

\* f"{topic} - {difficulty.capitalize()} Course"
ForcedTitle(top) ==
    top \o <<" ", "-", " ">> \o Capitalize(Difficulty)
        \o <<" ", "C", "o", "u", "r", "s", "e">>

\* outline.get("title", topic)
CourseTitle(outl, top) == IF outl.has_title THEN outl.title ELSE top

\* Lesson(title=lesson_data.get("title", ...), duration_minutes=
\* lesson_data.get("duration_minutes", 45), ...)
ToLesson(lesson_data) ==
    [title |-> lesson_data.title,
     duration_minutes |->
         IF lesson_data.has_duration THEN lesson_data.duration_minutes
         ELSE DefaultLessonMinutes,
     learning_objectives |-> lesson_data.learning_objectives,
     content |-> lesson_data.content,
     key_points |-> lesson_data.key_points,
     activities |-> lesson_data.activities,
     assessment_questions |-> lesson_data.assessment_questions]

\* for lesson_data in lessons_data: lessons.append(Lesson(...))
ToLessons(lessons_data) ==
    [i \in 1..Len(lessons_data) |-> ToLesson(lessons_data[i])]

\* sum(lesson.duration_minutes for lesson in lessons)
RECURSIVE TotalMinutes(_)
TotalMinutes(lessons) ==
    IF lessons = <<>> THEN 0
    ELSE Head(lessons).duration_minutes + TotalMinutes(Tail(lessons))

\* DurationTenths without the rounding: the tenths are cut off
DurationTenths_Truncated(total_minutes) == total_minutes \div 6

\* round(total_minutes / 60, 1), in tenths of an hour.  total_minutes / 6 is
\* rounded to the nearest integer; a tie (remainder 3) goes to the even
\* tenth, which is what round() does when total_minutes / 60 is a binary
\* fraction.  A tie among multiples of 5 minutes is an odd multiple of 15
\* minutes, an odd number of quarters of an hour, which is such a fraction.
DurationTenths(total_minutes) ==
    LET q == total_minutes \div 6
        r == total_minutes % 6
    IN  IF r < 3 THEN q
        ELSE IF r > 3 THEN q + 1
        ELSE IF q % 2 = 0 THEN q ELSE q + 1

\* Module(title=..., description=..., duration_hours=..., lessons=lessons)
MakeModule(info, lessons_data) ==
    [title |-> info.title,
     description |-> info.description,
     duration_tenths |-> DurationTenths(TotalMinutes(ToLessons(lessons_data))),
     lessons |-> ToLessons(lessons_data)]

\* the exception a failed outline / roadmap call raises where json.loads
\* is given the text as it is (empty text does not parse)
ParseError(o) == IF o = "raise" THEN "APIError" ELSE "JSONDecodeError"

\* generate_course_outline: empty text raises ValueError before json.loads
OutlineError(o) ==
    IF o = "raise" THEN "APIError"
    ELSE IF o = "empty" THEN "ValueError" ELSE "JSONDecodeError"

\* ------------------------------------------------- the response cleanup
\* most whitespace characters on each side of a fence marker or of the body
MaxPad == 1

\* the character of the fence markers, which a string of this language
\* cannot hold
BackTick == "^"

\* "```" and "```json"
Fence == <<BackTick, BackTick, BackTick>>
FenceJson == Fence \o <<"j", "s", "o", "n">>

\* the characters str.strip() removes, among those the responses use
StripChars == {" ", "\n", "\f"}

\* the whitespace json.loads skips
JsonWs == {" ", "\n", "\t", "\r"}

JsonDigits == {"0", "1", "2", "3", "4", "5", "6", "7", "8", "9"}

\* content.startswith(p)
StartsWith(s, p) == Len(s) >= Len(p) /\ SubSeq(s, 1, Len(p)) = p

\* content.endswith(p)
EndsWith(s, p) == Len(s) >= Len(p) /\ SubSeq(s, Len(s) - Len(p) + 1, Len(s)) = p

\* content[k:]
DropFirst(s, k) == SubSeq(s, k + 1, Len(s))

\* content[:-k]
DropLast(s, k) == SubSeq(s, 1, Len(s) - k)

RECURSIVE LStrip(_)
LStrip(s) ==
    IF s # <<>> /\ s[1] \in StripChars THEN LStrip(Tail(s)) ELSE s

RECURSIVE RStrip(_)
RStrip(s) ==
    IF s # <<>> /\ s[Len(s)] \in StripChars THEN RStrip(DropLast(s, 1)) ELSE s

\* str.strip()
Strip(s) == RStrip(LStrip(s))

\* StripFences that knows the bare marker only
StripFences_BareOnly(s) ==
    LET b == IF StartsWith(s, Fence) THEN DropFirst(s, 3) ELSE s
    IN  IF EndsWith(b, Fence) THEN DropLast(b, 3) ELSE b

\* if content.startswith("```json"): content = content[7:]
\* if content.startswith("```"): content = content[3:]
\* if content.endswith("```"): content = content[:-3]
StripFences(s) ==
    LET a == IF StartsWith(s, FenceJson) THEN DropFirst(s, 7) ELSE s
        b == IF StartsWith(a, Fence) THEN DropFirst(a, 3) ELSE a
    IN  IF EndsWith(b, Fence) THEN DropLast(b, 3) ELSE b

\* response.text.strip(), the three tests, and the strip() that follows
Cleanup(text) == Strip(StripFences(Strip(text)))

\* a decoded JSON value: t is "str", "num", "arr", "obj" or "member"; s holds
\* the characters of a string, the digits of a number or the key of a member;
\* items the elements of an array, the members of an object or the value of
\* a member
NoValue == [t |-> "none", s |-> <<>>, items |-> <<>>]
JsonValue(t, s, items) == [t |-> t, s |-> s, items |-> items]

ParseFail == [ok |-> FALSE, val |-> NoValue, next |-> 0]
Parsed(v, k) == [ok |-> TRUE, val |-> v, next |-> k]

\* the first index from i on that holds no JSON whitespace
RECURSIVE SkipWs(_, _)
SkipWs(s, i) ==
    IF i <= Len(s) /\ s[i] \in JsonWs THEN SkipWs(s, i + 1) ELSE i

\* the first index from i on that holds no digit
RECURSIVE SkipDigits(_, _)
SkipDigits(s, i) ==
    IF i <= Len(s) /\ s[i] \in JsonDigits THEN SkipDigits(s, i + 1) ELSE i

\* the index of the closing quote of a string whose characters start at i,
\* 0 when the string is not terminated
RECURSIVE ClosingQuote(_, _)
ClosingQuote(s, i) ==
    IF i > Len(s) \/ s[i] = "\n" THEN 0
    ELSE IF s[i] = "\"" THEN i
    ELSE ClosingQuote(s, i + 1)

\* a string literal at i
ParseString(s, i) ==
    IF i > Len(s) \/ s[i] # "\"" THEN ParseFail
    ELSE LET j == ClosingQuote(s, i + 1)
         IN  IF j = 0 THEN ParseFail
             ELSE Parsed(JsonValue("str", SubSeq(s, i + 1, j - 1), <<>>), j + 1)

\* the JSON decoder on strings, non-negative integers, arrays and objects
RECURSIVE ParseValue(_, _)
RECURSIVE ParseItems(_, _, _)
RECURSIVE ParseMembers(_, _, _)
ParseValue(s, i) ==
    IF i > Len(s) THEN ParseFail
    ELSE IF s[i] = "\"" THEN ParseString(s, i)
    ELSE IF s[i] \in JsonDigits
    THEN LET j == IF s[i] = "0" THEN i + 1 ELSE SkipDigits(s, i)
         IN  Parsed(JsonValue("num", SubSeq(s, i, j - 1), <<>>), j)
    ELSE IF s[i] = "["
    THEN LET k == SkipWs(s, i + 1)
         IN  IF k <= Len(s) /\ s[k] = "]"
             THEN Parsed(JsonValue("arr", <<>>, <<>>), k + 1)
             ELSE ParseItems(s, k, <<>>)
    ELSE IF s[i] = "{"
    THEN LET k == SkipWs(s, i + 1)
         IN  IF k <= Len(s) /\ s[k] = "}"
             THEN Parsed(JsonValue("obj", <<>>, <<>>), k + 1)
             ELSE ParseMembers(s, k, <<>>)
    ELSE ParseFail

ParseItems(s, i, acc) ==
    LET r == ParseValue(s, i)
        k == SkipWs(s, r.next)
    IN  IF ~r.ok \/ k > Len(s) THEN ParseFail
        ELSE IF s[k] = ","
        THEN ParseItems(s, SkipWs(s, k + 1), Append(acc, r.val))
        ELSE IF s[k] = "]"
        THEN Parsed(JsonValue("arr", <<>>, Append(acc, r.val)), k + 1)
        ELSE ParseFail

ParseMembers(s, i, acc) ==
    LET key == ParseString(s, i)
        c == SkipWs(s, key.next)
        r == ParseValue(s, SkipWs(s, c + 1))
        k == SkipWs(s, r.next)
        member == JsonValue("member", key.val.s, <<r.val>>)
    IN  IF ~key.ok \/ c > Len(s) THEN ParseFail
        ELSE IF s[c] # ":" \/ ~r.ok \/ k > Len(s) THEN ParseFail
        ELSE IF s[k] = ","
        THEN ParseMembers(s, SkipWs(s, k + 1), Append(acc, member))
        ELSE IF s[k] = "}"
        THEN Parsed(JsonValue("obj", <<>>, Append(acc, member)), k + 1)
        ELSE ParseFail

\* json.loads(content): the value, or ok = FALSE for JSONDecodeError
JsonLoads(s) ==
    LET r == ParseValue(s, SkipWs(s, 1))
    IN  IF r.ok /\ SkipWs(s, r.next) = Len(s) + 1
        THEN [ok |-> TRUE, val |-> r.val]
        ELSE [ok |-> FALSE, val |-> NoValue]

\* bool(value) is False
Falsy(v) ==
    \/ v.t \in {"arr", "obj", "str"} /\ v.s = <<>> /\ v.items = <<>>
    \/ v.t = "num" /\ v.s = <<"0">>

\* k times the character c
Pad(c, k) == [i \in 1..k |-> c]
Pads == {Pad(c, k) : c \in StripChars, k \in 0..MaxPad}

\* JSON texts the model answers with
JsonBodies ==
    { <<"[", "]">>,
      <<"{", "}">>,
      <<"0">>,
      <<"1", "2">>,
      <<"\"", BackTick, BackTick, BackTick, "\"">>,
      <<"[", "1", ",", " ", "\"", BackTick, "\"", "]">>,
      <<"[", "\"", BackTick, BackTick, BackTick, "j", "s", "o", "n", "\"", "]">>,
      <<"{", "\"", "j", "\"", ":", " ", "[", "1", "]", "}">>,
      <<"[", "{", "\"", "s", "\"", ":", "\"", BackTick, BackTick, BackTick, "\"", "}", "]">> }

\* other answers: nothing, text cut short, prose, a marker of its own
OtherBodies ==
    { <<>>,
      <<"[", "1">>,
      <<"[", "1", "]", "]">>,
      <<"j", "s", "o", "n">>,
      <<"0", "1">>,
      <<BackTick, BackTick, BackTick>> }

Bodies == JsonBodies \cup OtherBodies

\* response.text: the body as it is, or between "```json" and "```", or
\* between "```" and "```", with whitespace around the body and around the
\* whole
ResponseText(body, fence, outer, inner, trail) ==
    CASE fence = "none" -> outer \o body \o trail
      [] fence = "json" -> outer \o FenceJson \o inner \o body \o inner \o Fence \o trail
      [] fence = "bare" -> outer \o Fence \o inner \o body \o inner \o Fence \o trail

Replies ==
    { [body |-> b, fence |-> f, text |-> ResponseText(b, f, o, i, t)] :
        b \in Bodies, f \in {"none", "json", "bare"},
        o \in Pads, i \in Pads, t \in Pads }

\* ------------------------------------------------------------------- state
\* params before any pattern is tried
NoParams ==
    [topic |-> None, duration_weeks |-> None, difficulty |-> None,
     target_audience |-> None, lessons_per_module |-> None]

\* no response sent yet
NoResponse == [status |-> 0]

\* no response text received
NoReply == [body |-> <<>>, fence |-> "none", text |-> <<>>]

\* the caller of the model has neither returned nor raised
NoReturn == [kind |-> "none", error |-> "none", val |-> NoValue]

\* generate_roadmap_from_modules has not been called
NoRoadmapArgs == [modules |-> 0, duration_weeks |-> 0, start_date |-> None]

\* no agent method is running; p is "idle" where one may be invoked
AgentAt(p) ==
    /\ op = "none"
    /\ pc = p
    /\ topic = <<>>
    /\ n = 0
    /\ outline = NoOutline
    /\ requests = <<>>
    /\ modIdx = 0
    /\ all_lessons = <<>>
    /\ remaining = 0
    /\ batch_num = 0
    /\ modules = <<>>
    /\ title = <<>>
    /\ error = "none"
    /\ last = NoOutcome
    /\ answers = <<>>
    /\ roadmap_args = NoRoadmapArgs
    /\ result = None
    /\ roadmap_data = None
    /\ custom_learning_outcomes = None
    /\ learning_outcomes = <<>>

\* no extractor run
ExtractOff ==
    /\ prompt = <<>>
    /\ params = NoParams
    /\ missing = <<>>
    /\ xpc = "off"
    /\ response = NoResponse

\* no export
ExportOff ==
    /\ course_dict = None
    /\ md = None
    /\ html = None

\* no model response under cleanup
CleanupOff ==
    /\ reply = NoReply
    /\ content = None
    /\ returned = NoReturn
    /\ cpc = "off"

\* course_storage = {'course_content': None, 'course_roadmap': None}
EmptyStorage == [course_content |-> None, course_roadmap |-> None]

\* the web application is not serving
FlaskOff ==
    /\ api_key = FALSE
    /\ threads = 0
    /\ course_storage = EmptyStorage
    /\ inflight = {}
    /\ started = 0
    /\ log = <<>>

Init ==
    /\ CleanupOff
    /\ AgentAt("idle")
    /\ ExtractOff
    /\ ExportOff
    /\ FlaskOff

\* generate_module_content up to its first model call, for module idx:
\* all_lessons = [], remaining = num_lessons, batch_num = 1, and the loop
\* test; with nothing to request the function returns at once
BeginModule(idx, reqs) ==
    /\ modIdx' = idx
    /\ all_lessons' = <<>>
    /\ remaining' = n
    /\ batch_num' = 1
    /\ IF n > 0
       THEN /\ requests' = Append(reqs, Request("batch", idx, 1, BatchSize(n)))
            /\ pc' = "batch"
       ELSE /\ requests' = reqs
            /\ pc' = "module_return"

\* EnterModules without the test of the modules list: the for loop has
\* nothing to go over and the course is returned with no module
EnterModules_NoCheck(outl, reqs) ==
    /\ outline' = outl
    /\ learning_outcomes' = LearningOutcomes(custom_learning_outcomes, outl)
    /\ title' = CourseTitle(outl, topic)
    /\ modules' = <<>>
    /\ error' = error
    /\ IF OutlineModuleList(outl) = <<>>
       THEN /\ pc' = "done"
            /\ requests' = reqs
            /\ UNCHANGED <<modIdx, all_lessons, remaining, batch_num>>
       ELSE BeginModule(1, reqs)

\* generate_complete_course from course_data = {...} to the first module:
\* an outline without modules raises ValueError
EnterModules(outl, reqs) ==
    /\ outline' = outl
    /\ learning_outcomes' = LearningOutcomes(custom_learning_outcomes, outl)
    /\ title' = CourseTitle(outl, topic)
    /\ modules' = <<>>
    /\ IF OutlineModuleList(outl) = <<>>
       THEN /\ pc' = "raised"
            /\ error' = "ValueError"
            /\ requests' = reqs
            /\ UNCHANGED <<modIdx, all_lessons, remaining, batch_num>>
       ELSE /\ error' = error
            /\ BeginModule(1, reqs)

\* the outcome of an outline request: how the call ended and, when an outline
\* was parsed, the "title" the model gave it
OutlineOutcome(o, outl) ==
    [kind |-> o, count |-> 0,
     title |-> IF o = "ok" /\ outl.has_title THEN Some(outl.title) ELSE None]

\* an exception leaves the invocation
Raise(e) ==
    /\ pc' = "raised"
    /\ error' = e
    /\ UNCHANGED <<outline, requests, modIdx, all_lessons, remaining,
                   batch_num, modules, title>>

\* ----------------------------------------------------------------- actions
\* CourseContentAgent.generate_complete_course(topic, ..., lessons_per_module)
\* up to the first outline request
StartPlain ==
    /\ pc = "idle"
    /\ \E t \in Topics, k \in LessonCounts :
        /\ op' = "plain"
        /\ topic' = t
        /\ n' = k
        /\ requests' = <<Request("outline", 0, 0, 0)>>
        /\ pc' = "outline"
        /\ UNCHANGED <<outline, modIdx, all_lessons, remaining, batch_num,
                       modules, title, error, last, answers>>
        /\ UNCHANGED outsideAgent

\* the first outline answer: generate_course_outline returns or raises, then
\* the topic check; a mismatch sends the stricter prompt
PlainOutlineResponse ==
    /\ pc = "outline"
    /\ \E o \in CallOutcomes, outl \in OutlinesFor(n) :
        /\ last' = OutlineOutcome(o, outl)
        /\ answers' = Append(answers, Answer(o = "ok", 0))
        /\ IF o # "ok" THEN Raise(OutlineError(o)) /\ UNCHANGED learning_outcomes
           ELSE IF TopicMatch(outl, topic) THEN EnterModules(outl, requests)
           ELSE /\ requests' = Append(requests, Request("outline_strict", 0, 0, 0))
                /\ pc' = "regen"
                /\ outline' = outl
                /\ UNCHANGED <<modIdx, all_lessons, remaining, batch_num,
                               modules, title, error, learning_outcomes>>
        /\ UNCHANGED <<op, topic, n, custom_learning_outcomes>>
        /\ UNCHANGED outsideOutline

\* PlainRegenResponse with the topic check repeated on the new outline
PlainRegenResponse_Recheck ==
    /\ pc = "regen"
    /\ \E o \in CallOutcomes, outl \in OutlinesFor(n) :
        /\ last' = OutlineOutcome(o, outl)
        /\ answers' = Append(answers, Answer(o = "ok", 0))
        /\ IF o # "ok" THEN Raise(ParseError(o)) /\ UNCHANGED learning_outcomes
           ELSE IF TopicMatch(outl, topic) \/ Len(requests) > 2
                THEN EnterModules(outl, requests)
           ELSE /\ requests' = Append(requests, Request("outline_strict", 0, 0, 0))
                /\ pc' = "regen"
                /\ outline' = outl
                /\ UNCHANGED <<modIdx, all_lessons, remaining, batch_num,
                               modules, title, error, learning_outcomes>>
        /\ UNCHANGED <<op, topic, n, custom_learning_outcomes>>
        /\ UNCHANGED outsideOutline

\* the answer to the stricter prompt: parsed and used as it is
PlainRegenResponse ==
    /\ pc = "regen"
    /\ \E o \in CallOutcomes, outl \in OutlinesFor(n) :
        /\ last' = OutlineOutcome(o, outl)
        /\ answers' = Append(answers, Answer(o = "ok", 0))
        /\ IF o # "ok" THEN Raise(ParseError(o)) /\ UNCHANGED learning_outcomes
           ELSE EnterModules(outl, requests)
        /\ UNCHANGED <<op, topic, n, custom_learning_outcomes>>
        /\ UNCHANGED outsideOutline


\* CourseContentAgentLangChain.generate_complete_course up to the chain.invoke
\* of generate_course_outline_with_details
StartLangChain ==
    /\ pc = "idle"
    /\ \E t \in Topics, k \in LessonCounts :
        /\ op' = "langchain"
        /\ topic' = t
        /\ n' = k
        /\ \E custom \in CustomOutcomesFor(k) :
              custom_learning_outcomes' = custom
        /\ UNCHANGED learning_outcomes
        /\ requests' = <<Request("outline", 0, 0, 0)>>
        /\ pc' = "lc_outline"
        /\ UNCHANGED <<outline, modIdx, all_lessons, remaining, batch_num,
                       modules, title, error, last, answers>>
        /\ UNCHANGED outsideOutline

\* if not topic_match: outline["title"] = f"{topic} - ... Course"
ForceTitle(outl, top) ==
    IF TopicMatch(outl, top) THEN outl
    ELSE [outl EXCEPT !.has_title = TRUE, !.title = ForcedTitle(top)]

\* chain.invoke of the outline prompt returns the parsed outline, or raises
\* and the except branch invokes (outline_prompt | self.llm) again
LangChainOutlineResponse ==
    /\ pc = "lc_outline"
    /\ \E o \in CallOutcomes, outl \in OutlinesFor(n) :
        /\ last' = OutlineOutcome(o, outl)
        /\ answers' = Append(answers, Answer(o = "ok", 0))
        /\ IF o = "ok" THEN EnterModules(ForceTitle(outl, topic), requests)
           ELSE /\ requests' = Append(requests, Request("outline_fallback", 0, 0, 0))
                /\ pc' = "lc_fallback"
                /\ UNCHANGED <<outline, modIdx, all_lessons, remaining, batch_num,
                               modules, title, error, learning_outcomes>>
        /\ UNCHANGED <<op, topic, n, custom_learning_outcomes>>
        /\ UNCHANGED outsideOutline

\* the answer to the except branch's call: fences stripped, json.loads
LangChainFallbackResponse ==
    /\ pc = "lc_fallback"
    /\ \E o \in CallOutcomes, outl \in OutlinesFor(n) :
        /\ last' = OutlineOutcome(o, outl)
        /\ answers' = Append(answers, Answer(o = "ok", 0))
        /\ IF o # "ok" THEN Raise(ParseError(o)) /\ UNCHANGED learning_outcomes
           ELSE EnterModules(ForceTitle(outl, topic), requests)
        /\ UNCHANGED <<op, topic, n, custom_learning_outcomes>>
        /\ UNCHANGED outsideOutline

\* BatchResponse without the try/except of _generate_lessons_batch
BatchResponse_Uncaught ==
    /\ pc = "batch"
    /\ \E o \in BatchOutcomes(BatchSize(remaining)) :
        /\ last' = o
        /\ answers' = Append(answers, Answer(o.kind = "lessons", o.count))
        /\ IF o.kind \in {"raise", "unparsable"}
           THEN Raise(ParseError(o.kind))
           ELSE /\ all_lessons' = ExtendLessons(all_lessons,
                        GenerateLessonsBatch(o), BatchSize(remaining))
                /\ remaining' = NextRemaining(remaining)
                /\ batch_num' = batch_num + 1
                /\ IF remaining' > 0
                   THEN /\ requests' = Append(requests,
                               Request("batch", modIdx, batch_num',
                                       BatchSize(remaining')))
                        /\ pc' = "batch"
                   ELSE /\ requests' = requests
                        /\ pc' = "module_return"
                /\ UNCHANGED <<outline, modIdx, modules, title, error>>
        /\ UNCHANGED <<op, topic, n>>
        /\ UNCHANGED outsideAgent

\* BatchResponse asking for a failed batch once more before falling back
BatchResponse_RetryFailed ==
    /\ pc = "batch"
    /\ \E o \in BatchOutcomes(BatchSize(remaining)) :
        /\ last' = o
        /\ answers' = Append(answers, Answer(o.kind = "lessons", o.count))
        /\ IF o.kind \in {"raise", "unparsable", "empty"}
              /\ last.kind \notin {"raise", "unparsable", "empty"}
           THEN /\ requests' = Append(requests,
                        Request("batch", modIdx, batch_num, BatchSize(remaining)))
                /\ UNCHANGED <<pc, all_lessons, remaining, batch_num>>
           ELSE /\ all_lessons' = ExtendLessons(all_lessons,
                        GenerateLessonsBatch(o), BatchSize(remaining))
                /\ remaining' = NextRemaining(remaining)
                /\ batch_num' = batch_num + 1
                /\ IF remaining' > 0
                   THEN /\ requests' = Append(requests,
                               Request("batch", modIdx, batch_num',
                                       BatchSize(remaining')))
                        /\ pc' = "batch"
                   ELSE /\ requests' = requests
                        /\ pc' = "module_return"
        /\ UNCHANGED <<op, topic, n, outline, modIdx, modules, title, error>>
        /\ UNCHANGED outsideAgent

\* one pass of the while loop of generate_module_content, from the answer
\* to the batch call in flight to the next batch call or the return
BatchResponse ==
    /\ pc = "batch"
    /\ \E o \in BatchOutcomes(BatchSize(remaining)) :
        /\ last' = o
        /\ answers' = Append(answers, Answer(o.kind = "lessons", o.count))
        /\ all_lessons' = ExtendLessons(all_lessons, GenerateLessonsBatch(o),
                                        BatchSize(remaining))
        /\ remaining' = NextRemaining(remaining)
        /\ batch_num' = batch_num + 1
        /\ IF remaining' > 0
           THEN /\ requests' = Append(requests,
                       Request("batch", modIdx, batch_num', BatchSize(remaining')))
                /\ pc' = "batch"
           ELSE /\ requests' = requests
                /\ pc' = "module_return"
        /\ UNCHANGED <<op, topic, n, outline, modIdx, modules, title, error>>
        /\ UNCHANGED outsideAgent

\* generate_module_content has returned all_lessons: the Module is built and
\* appended, and the for loop goes to the next module or returns the course
ModuleReturn ==
    /\ pc = "module_return"
    /\ modules' = Append(modules,
                          MakeModule(OutlineModuleList(outline)[modIdx], all_lessons))
    /\ IF modIdx < Len(OutlineModuleList(outline))
       THEN BeginModule(modIdx + 1, requests)
       ELSE /\ pc' = "done"
            /\ UNCHANGED <<requests, modIdx, all_lessons, remaining, batch_num>>
    /\ UNCHANGED <<op, topic, n, outline, title, error, last, answers>>
    /\ UNCHANGED outsideAgent

\* ------------------------------------------------- the roadmap agent
\* most input modules, weeks requested and weekly_schedule entries returned
MaxRoadmapModules == 2
MaxRoadmapWeeks == 2
MaxScheduleWeeks == 2

\* str() of a digit
DigitChar(d) ==
    CASE d = 0 -> "0" [] d = 1 -> "1" [] d = 2 -> "2" [] d = 3 -> "3"
      [] d = 4 -> "4" [] d = 5 -> "5" [] d = 6 -> "6" [] d = 7 -> "7"
      [] d = 8 -> "8" [] d = 9 -> "9"

\* str() of a non-negative int
RECURSIVE IntToStr(_)
IntToStr(i) ==
    IF i < 10 THEN <<DigitChar(i)>>
    ELSE IntToStr(i \div 10) \o <<DigitChar(i % 10)>>

\* the value of a decimal digit, 10 for any other character
DigitValue(c) ==
    IF \E k \in 0..9 : DigitChar(k) = c
    THEN CHOOSE k \in 0..9 : DigitChar(k) = c
    ELSE 10

IsDigits(s) == \A i \in 1..Len(s) : DigitValue(s[i]) < 10

\* int() of a string of digits
RECURSIVE StrToInt(_)
StrToInt(s) ==
    IF s = <<>> THEN 0
    ELSE 10 * StrToInt(SubSeq(s, 1, Len(s) - 1)) + DigitValue(s[Len(s)])

\* a number as strftime writes it for %Y (width 4), %m and %d (width 2)
RECURSIVE ZeroPad(_, _)
ZeroPad(s, width) ==
    IF Len(s) >= width THEN s ELSE ZeroPad(<<"0">> \o s, width)

\* datetime.MAXYEAR
MAXYEAR == 9999

\* the proleptic Gregorian calendar of datetime
IsLeap(y) == (y % 4 = 0 /\ y % 100 # 0) \/ y % 400 = 0

DaysInMonth(y, m) ==
    IF m = 2 THEN (IF IsLeap(y) THEN 29 ELSE 28)
    ELSE IF m \in {4, 6, 9, 11} THEN 30 ELSE 31

DaysBeforeYear(y) ==
    LET q == y - 1 IN q * 365 + q \div 4 - q \div 100 + q \div 400

RECURSIVE DaysBeforeMonth(_, _)
DaysBeforeMonth(y, m) ==
    IF m = 1 THEN 0 ELSE DaysBeforeMonth(y, m - 1) + DaysInMonth(y, m - 1)

\* date.toordinal()
ToOrdinal(dt) ==
    DaysBeforeYear(dt.year) + DaysBeforeMonth(dt.year, dt.month) + dt.day

\* date.fromordinal(o)
FromOrdinal(o) ==
    LET y == CHOOSE y \in (o \div 366)..(o \div 365 + 1) :
                 DaysBeforeYear(y) < o /\ o <= DaysBeforeYear(y + 1)
        r == o - DaysBeforeYear(y)
        m == CHOOSE m \in 1..12 :
                 /\ DaysBeforeMonth(y, m) < r
                 /\ r <= DaysBeforeMonth(y, m) + DaysInMonth(y, m)
    IN  [year |-> y, month |-> m, day |-> r - DaysBeforeMonth(y, m)]

\* datetime.strptime(s, "%Y-%m-%d") for text with zero-padded fields: the
\* date, or None where it raises ValueError
Strptime(s) ==
    IF \/ Len(s) # 10
       \/ s[5] # "-"
       \/ s[8] # "-"
       \/ ~IsDigits(SubSeq(s, 1, 4) \o SubSeq(s, 6, 7) \o SubSeq(s, 9, 10))
    THEN None
    ELSE LET y == StrToInt(SubSeq(s, 1, 4))
             m == StrToInt(SubSeq(s, 6, 7))
             d == StrToInt(SubSeq(s, 9, 10))
         IN  IF y >= 1 /\ m \in 1..12 /\ d >= 1 /\ d <= DaysInMonth(y, m)
             THEN Some([year |-> y, month |-> m, day |-> d])
             ELSE None

\* dt.strftime("%Y-%m-%d")
Strftime(dt) ==
    ZeroPad(IntToStr(dt.year), 4) \o <<"-">> \o
    ZeroPad(IntToStr(dt.month), 2) \o <<"-">> \o
    ZeroPad(IntToStr(dt.day), 2)

\* AddWeeks moving the date by one day per week
AddWeeks_Days(start, weeks) ==
    LET o == ToOrdinal(start) + weeks
    IN  IF o > ToOrdinal([year |-> MAXYEAR, month |-> 12, day |-> 31])
        THEN None
        ELSE Some(FromOrdinal(o))

\* start + timedelta(weeks=weeks): the date, or None where it raises
\* OverflowError
AddWeeks(start, weeks) ==
    LET o == ToOrdinal(start) + 7 * weeks
    IN  IF o > ToOrdinal([year |-> MAXYEAR, month |-> 12, day |-> 31])
        THEN None
        ELSE Some(FromOrdinal(o))

\* calculated_end_date: None unless start_date is given, parses and the end
\* date exists (the bare except passes on any exception)
CalculatedEndDate(start_date, duration_weeks) ==
    IF start_date = None \/ start_date = Some(<<>>)
    THEN None
    ELSE LET start == Strptime(start_date[1])
         IN  IF start = None
             THEN None
             ELSE LET end == AddWeeks(start[1], duration_weeks)
                  IN  IF end = None THEN None ELSE Some(Strftime(end[1]))

\* the values of start_date tried: dates in and across months and years, in
\* a leap year and not, one within a week of the last day of year 9999,
\* texts that are not dates, the empty text
StartDateTexts ==
    {<<"2", "0", "2", "6", "-", "0", "2", "-", "0", "1">>,
     <<"2", "0", "2", "4", "-", "0", "2", "-", "2", "6">>,
     <<"2", "0", "2", "5", "-", "0", "2", "-", "2", "6">>,
     <<"2", "0", "2", "6", "-", "1", "2", "-", "2", "8">>,
     <<"9", "9", "9", "9", "-", "1", "2", "-", "2", "8">>,
     <<"2", "0", "2", "6", "-", "0", "2", "-", "3", "0">>,
     <<"2", "0", "2", "6", "-", "1", "3", "-", "0", "1">>,
     <<"0", "1", "/", "0", "2", "/", "2", "0", "2", "6">>,
     <<>>}

StartDates == {None} \cup {Some(t) : t \in StartDateTexts}

\* estimated_hours of a week of the model's answer, counted in quarters of
\* an hour: 0.25, 1.25 and 4.5 hours
HourQuarters == {1, 5, 18}

\* a week dict of the model's answer, with and without "estimated_hours"
WeekDict(q) == [has_hours |-> TRUE, estimated_quarters |-> q]
WeekWithoutHours == [has_hours |-> FALSE, estimated_quarters |-> 0]
WeekDicts == {WeekDict(q) : q \in HourQuarters} \cup {WeekWithoutHours}

\* the dicts the model may answer: "weekly_schedule" absent, or a list of
\* any length up to MaxScheduleWeeks
RoadmapResults ==
    {[weekly_schedule |-> None]} \cup
    {[weekly_schedule |-> Some(ws)] :
        ws \in UNION {[1..k -> WeekDicts] : k \in 0..MaxScheduleWeeks}}

\* result.get('weekly_schedule', [])
ScheduleOf(res) ==
    IF res.weekly_schedule = None THEN <<>> ELSE res.weekly_schedule[1]

\* sum(week.get('estimated_hours', 0) for week in ...), in quarters
RECURSIVE TotalQuarters(_)
TotalQuarters(ws) ==
    IF ws = <<>> THEN 0
    ELSE (IF ws[1].has_hours THEN ws[1].estimated_quarters ELSE 0)
         + TotalQuarters(Tail(ws))

\* RoundHours cutting the second decimal off
RoundHours_Truncated(quarters) == (25 * quarters) \div 10

\* round(total_hours, 1) in tenths, total_hours a number of quarters: a
\* quarter is a binary fraction, so the sum is exact and a tie goes to the
\* even tenth
RoundHours(quarters) ==
    LET h == 25 * quarters
        t == h \div 10
        r == h % 10
    IN  IF r < 5 THEN t
        ELSE IF r > 5 THEN t + 1
        ELSE IF t % 2 = 0 THEN t ELSE t + 1

\* WeeklySchedule(**week) accepts the week: estimated_hours is required
ValidWeek(week) == week.has_hours

\* CourseRoadmap(**roadmap_data)
BuildRoadmap(args, res) ==
    [total_duration_weeks |-> args.duration_weeks,
     start_date |-> args.start_date,
     end_date |-> CalculatedEndDate(args.start_date, args.duration_weeks),
     total_modules |-> args.modules,
     total_estimated_tenths |-> RoundHours(TotalQuarters(ScheduleOf(res))),
     weekly_schedule |-> [i \in 1..Len(ScheduleOf(res)) |->
                             ScheduleOf(res)[i].estimated_quarters]]

\* the parsed answer res arrives: the roadmap is built and returned, or
\* WeeklySchedule(**week) raises
ReturnRoadmap(res) ==
    /\ result' = Some(res)
    /\ IF \A i \in 1..Len(ScheduleOf(res)) : ValidWeek(ScheduleOf(res)[i])
       THEN /\ roadmap_data' = Some(BuildRoadmap(roadmap_args, res))
            /\ pc' = "done"
            /\ error' = error
       ELSE /\ roadmap_data' = None
            /\ pc' = "raised"
            /\ error' = "ValidationError"

\* CourseRoadmapAgent.generate_roadmap_from_modules up to chain.invoke
StartRoadmap ==
    /\ pc = "idle"
    /\ op' = "roadmap"
    /\ \E ms \in 0..MaxRoadmapModules, w \in 1..MaxRoadmapWeeks,
          sd \in StartDates :
          roadmap_args' = [modules |-> ms, duration_weeks |-> w,
                           start_date |-> sd]
    /\ UNCHANGED <<result, roadmap_data>>
    /\ requests' = <<Request("roadmap", 0, 0, 0)>>
    /\ pc' = "rm_invoke"
    /\ UNCHANGED <<topic, n, outline, modIdx, all_lessons, remaining,
                   batch_num, modules, title, error, last, answers>>
    /\ UNCHANGED outsideRoadmap

\* chain.invoke of the roadmap prompt returns the parsed roadmap, or raises
\* and the except branch invokes (roadmap_prompt | self.llm) again
RoadmapResponse ==
    /\ pc = "rm_invoke"
    /\ \E o \in CallOutcomes :
        /\ last' = [kind |-> o, count |-> 0]
        /\ answers' = Append(answers, Answer(o = "ok", 0))
        /\ IF o = "ok"
           THEN /\ \E res \in RoadmapResults : ReturnRoadmap(res)
                /\ requests' = requests
           ELSE /\ requests' = Append(requests, Request("roadmap_fallback", 0, 0, 0))
                /\ pc' = "rm_fallback"
                /\ UNCHANGED <<error, result, roadmap_data>>
        /\ UNCHANGED <<op, topic, n, outline, modIdx, all_lessons, remaining,
                       batch_num, modules, title, roadmap_args>>
        /\ UNCHANGED outsideRoadmap

\* the answer to the except branch's call: fences stripped, json.loads
RoadmapFallbackResponse ==
    /\ pc = "rm_fallback"
    /\ \E o \in CallOutcomes :
        /\ last' = [kind |-> o, count |-> 0]
        /\ answers' = Append(answers, Answer(o = "ok", 0))
        /\ IF o = "ok"
           THEN /\ \E res \in RoadmapResults : ReturnRoadmap(res)
                /\ UNCHANGED <<outline, requests, modIdx, all_lessons, remaining,
                               batch_num, modules, title>>
           ELSE /\ Raise(ParseError(o))
                /\ UNCHANGED <<result, roadmap_data>>
        /\ UNCHANGED <<op, topic, n, roadmap_args>>
        /\ UNCHANGED outsideRoadmap

Next ==
    \/ StartPlain
    \/ PlainOutlineResponse
    \/ PlainRegenResponse
    \/ StartLangChain
    \/ LangChainOutlineResponse
    \/ LangChainFallbackResponse
    \/ BatchResponse
    \/ ModuleReturn
    \/ StartRoadmap
    \/ RoadmapResponse
    \/ RoadmapFallbackResponse

Spec == Init /\ [][Next]_vars


\* ---------------------------------------------- the parameter extractor
\* A prompt is the sequence of its whitespace-separated tokens, punctuation
\* marks being tokens of their own; the string the code sees is the tokens
\* joined by single spaces.  A regular expression of the source is read on
\* that sequence: \s+ is a token boundary, a literal is a token (or the
\* tokens of the vocabulary it matches as a prefix where the source has no
\* \b), ( ... ) delimits the captured tokens.

\* most fragments a prompt is put together from
MaxFragments == 3

\* len(topic) > 3, len(audience) > 3
MinValueLen == 3
\* 1 <= weeks <= 52
MinWeeks == 1
MaxWeeks == 52
\* 1 <= lessons <= 20
MinLessonsPerModule == 1
MaxLessonsPerModule == 20
\* params['duration_weeks'] = 4, params['lessons_per_module'] = 4
DefaultWeeks == 4
DefaultLessonsPerModule == 4

\* the phrases a prompt is put together from
Fragments ==
    { <<"create", "a", "Python", "course">>,
      <<"course", "on", "sql", ",">>,
      <<"learn", "data", "science">>,
      <<"60", "weeks">>,
      <<"over", "8", "weeks">>,
      <<"25", "lessons", "per", "module">>,
      <<"each", "module", "has", "5", "lessons">>,
      <<"for", "all", ",">>,
      <<"senior", "developers">> }

\* the sequences of at most k different fragments
RECURSIVE FragmentSeqs(_)
FragmentSeqs(k) ==
    IF k = 0 THEN {<<>>}
    ELSE FragmentSeqs(k - 1)
         \cup { Append(fs, f) : fs \in FragmentSeqs(k - 1), f \in Fragments }

\* the tokens of a sequence of fragments
RECURSIVE Join(_)
Join(fs) == IF fs = <<>> THEN <<>> ELSE Head(fs) \o Join(Tail(fs))

\* the prompts made of at most k fragments, none of them used twice
PromptsUpTo(k) ==
    { Join(fs) : fs \in { gs \in FragmentSeqs(k) :
                            \A a, b \in 1..Len(gs) : gs[a] = gs[b] => a = b } }

Prompts == PromptsUpTo(MaxFragments)

\* the sequences of at most k different phrases of F
RECURSIVE PhraseSeqs(_, _)
PhraseSeqs(F, k) ==
    IF k = 0 THEN {<<>>}
    ELSE PhraseSeqs(F, k - 1)
         \cup UNION { { Append(fs, f) :
                           f \in {g \in F : \A a \in 1..Len(fs) : fs[a] # g} } :
                         fs \in PhraseSeqs(F, k - 1) }

\* the prompts made of at most k phrases of F, none of them used twice
PromptsFrom(F, k) == { Join(fs) : fs \in PhraseSeqs(F, k) }

\* phrases with numbers below, inside and above the ranges, and two topics
NumberFragments ==
    { <<"60", "weeks">>,
      <<"0", "weeks">>,
      <<"over", "8", "weeks">>,
      <<"25", "lessons", "per", "module">>,
      <<"0", "lessons", "per", "module">>,
      <<"each", "module", "has", "5", "lessons">>,
      <<"course", "on", "sql", ",">>,
      <<"learn", "data", "science">> }

NumberPrompts == PromptsFrom(NumberFragments, MaxFragments)

\* phrases with synonyms of the three levels, of one and of two words, and
\* with words that only begin like a synonym
LevelFragments ==
    { <<"advanced">>,
      <<"basic">>,
      <<"intermediate">>,
      <<"basics">>,
      <<"seniority">>,
      <<"entry", "level">>,
      <<"deep", "dive">>,
      <<"learn", "data", "science">> }

LevelPrompts == PromptsFrom(LevelFragments, MaxFragments)

\* prompt.lower(), token by token
LowerToken(t) == IF t = "Python" THEN "python" ELSE t

LowerTokens(toks) == [i \in 1..Len(toks) |-> LowerToken(toks[i])]

\* int(match.group(1)) on the number tokens of the vocabulary
ToInt(t) ==
    CASE t = "0" -> 0
      [] t = "5" -> 5
      [] t = "8" -> 8
      [] t = "25" -> 25
      [] t = "60" -> 60

\* \d+
Numbers == {"0", "5", "8", "25", "60"}

\* len() of the tokens joined by single spaces
RECURSIVE StrLen(_)
StrLen(toks) ==
    IF toks = <<>> THEN 0
    ELSE IF Len(toks) = 1 THEN Len(toks[1])
    ELSE Len(Head(toks)) + 1 + StrLen(Tail(toks))

\* elements of a pattern
Tok(S) == [k |-> "tok", set |-> S, alts |-> <<>>]
Alt(A) == [k |-> "alt", set |-> {}, alts |-> A]
Opt(A) == [k |-> "opt", set |-> {}, alts |-> A]
Open == [k |-> "open", set |-> {}, alts |-> <<>>]
Close == [k |-> "close", set |-> {}, alts |-> <<>>]
Lazy(X) == [k |-> "lazy", set |-> X, alts |-> <<>>]
Term(S) == [k |-> "term", set |-> S, alts |-> <<>>]

NoMatch == [ok |-> FALSE, from |-> 0, to |-> 0]

\* the backtracking match of pat[k..] on toks[pos..]: alternatives in the
\* order written, an optional group taken first and skipped second, a lazy
\* run shortest first; the result is the first success, with the captured
\* range
RECURSIVE MatchFrom(_, _, _, _, _)
RECURSIVE TryAlts(_, _, _, _, _, _)
RECURSIVE TryLazy(_, _, _, _, _, _)
MatchFrom(pat, k, toks, pos, cap) ==
    IF k > Len(pat) THEN [ok |-> TRUE, from |-> cap[1], to |-> cap[2]]
    ELSE LET e == pat[k]
         IN  CASE e.k = "tok" ->
                    IF pos <= Len(toks) /\ toks[pos] \in e.set
                    THEN MatchFrom(pat, k + 1, toks, pos + 1, cap)
                    ELSE NoMatch
               [] e.k \in {"alt", "opt"} -> TryAlts(pat, k, toks, pos, cap, 1)
               [] e.k = "open" -> MatchFrom(pat, k + 1, toks, pos, <<pos, cap[2]>>)
               [] e.k = "close" ->
                    MatchFrom(pat, k + 1, toks, pos, <<cap[1], pos - 1>>)
               [] e.k = "lazy" -> TryLazy(pat, k, toks, pos, cap, 1)
               [] e.k = "term" ->
                    IF pos > Len(toks)
                    THEN MatchFrom(pat, k + 1, toks, pos, cap)
                    ELSE IF toks[pos] \in e.set
                    THEN MatchFrom(pat, k + 1, toks, pos + 1, cap)
                    ELSE NoMatch

TryAlts(pat, k, toks, pos, cap, a) ==
    LET e == pat[k]
    IN  IF a > Len(e.alts)
        THEN IF e.k = "opt" THEN MatchFrom(pat, k + 1, toks, pos, cap) ELSE NoMatch
        ELSE LET w == e.alts[a]
                 here == /\ pos + Len(w) - 1 <= Len(toks)
                         /\ SubSeq(toks, pos, pos + Len(w) - 1) = w
                 r == IF here THEN MatchFrom(pat, k + 1, toks, pos + Len(w), cap)
                      ELSE NoMatch
             IN  IF r.ok THEN r ELSE TryAlts(pat, k, toks, pos, cap, a + 1)

TryLazy(pat, k, toks, pos, cap, len) ==
    IF pos + len - 1 > Len(toks) \/ toks[pos + len - 1] \in pat[k].set
    THEN NoMatch
    ELSE LET r == MatchFrom(pat, k + 1, toks, pos + len, cap)
         IN  IF r.ok THEN r ELSE TryLazy(pat, k, toks, pos, cap, len + 1)

\* re.search(pattern, prompt_lower): the match at the leftmost position
RECURSIVE SearchFrom(_, _, _)
SearchFrom(pat, toks, start) ==
    IF start > Len(toks) THEN NoMatch
    ELSE LET r == MatchFrom(pat, 1, toks, start, <<0, 0>>)
         IN  IF r.ok THEN r ELSE SearchFrom(pat, toks, start + 1)

Search(pat, toks) == SearchFrom(pat, toks, 1)

\* match.group(1).strip()
Group1(toks, m) == SubSeq(toks, m.from, m.to)

\* [^\n,.;] excludes these tokens; [,.\n] ends a capture
Punctuation == {",", ".", ";"}
CaptureEnd == {",", "."}

Verbs == {"create", "generate", "build", "make", "design", "develop"}
CourseWords == {"course", "class", "training", "program", "curriculum"}
CourseSuffixes == {"course", "class", "training", "program"}
Articles == {"a", "an", "the"}
WeekWords == {"week", "weeks"}
LessonWords == {"lesson", "lessons"}

\* topic_patterns, in the order of the list
TopicPatterns ==
    << \* (?:create|...)\s+(?:a\s+)?([^\s]+(?:\s+[^\s]+)*?)\s+(?:course|...)\s+for
       << Tok(Verbs), Opt(<< <<"a">> >>), Open, Lazy({}), Close,
          Tok(CourseWords), Tok({"for"}) >>,
       \* (?:course|...)\s+(?:on|about|regarding|covering)\s+([^\n,.;]+?)(?:...)
       << Tok(CourseWords), Tok({"on", "about", "regarding", "covering"}),
          Open, Lazy(Punctuation), Close,
          Term({"for", "over", "duration", "difficulty", "that", "which",
                "with", "lasting", "taking"} \cup CaptureEnd) >>,
       \* (?:teach|learn|...)\s+(?:about\s+)?([^\n,.;]+?)(?:...)
       << Tok({"teach", "learn", "study", "master", "understand"}),
          Opt(<< <<"about">> >>), Open, Lazy(Punctuation), Close,
          Term({"for", "to", "over", "duration", "in", "within"}
               \cup CaptureEnd) >>,
       \* (?:create|...)\s+(?:a\s+)?(?:course|...)\s+(?:on|about|regarding|in)\s+(...)
       << Tok(Verbs), Opt(<< <<"a">> >>), Tok(CourseSuffixes),
          Tok({"on", "about", "regarding", "in"}),
          Open, Lazy(Punctuation), Close,
          Term({"for", "over", "duration"} \cup CaptureEnd) >>,
       \* topic\s*[:\-]\s*([^\n,.;]+?)(?:...)
       << Tok({"topic"}), Tok({":", "-"}), Open, Lazy(Punctuation), Close,
          Term({"for", "over", "duration"} \cup CaptureEnd) >>,
       \* subject\s*[:\-]\s*([^\n,.;]+?)(?:...)
       << Tok({"subject"}), Tok({":", "-"}), Open, Lazy(Punctuation), Close,
          Term({"for", "over", "duration"} \cup CaptureEnd) >>,
       \* (?:i\s+)?(?:want|need|would like)\s+(?:to\s+)?(?:learn|...)\s+(?:a\s+)?
       \*   (?:course\s+(?:on|in)\s+)?([^\n,.;]+?)(?:...)
       << Opt(<< <<"i">> >>), Alt(<< <<"want">>, <<"need">>, <<"would", "like">> >>),
          Opt(<< <<"to">> >>), Tok({"learn", "study", "create", "take"}),
          Opt(<< <<"a">> >>), Opt(<< <<"course", "on">>, <<"course", "in">> >>),
          Open, Lazy(Punctuation), Close,
          Term({"for", "course", "training"} \cup CaptureEnd) >> >>

\* the three re.sub clean-ups of a captured topic
CleanTopic(t) ==
    LET \* ^(?:a|an|the)\s+
        t1 == IF Len(t) >= 2 /\ t[1] \in Articles THEN Tail(t) ELSE t
        \* \s+(?:course|class|training|program)$
        t2 == IF Len(t1) >= 2 /\ t1[Len(t1)] \in CourseSuffixes
              THEN SubSeq(t1, 1, Len(t1) - 1) ELSE t1
        \* \s+(?:for|to|with)\s+.*$
        cuts == { i \in 2..(Len(t2) - 1) : t2[i] \in {"for", "to", "with"} }
    IN  IF cuts = {} THEN t2
        ELSE SubSeq(t2, 1, (CHOOSE i \in cuts : \A j \in cuts : i <= j) - 1)

\* the value pattern k of the topic list yields, None without a match
TopicCandidate(toks, k) ==
    LET m == Search(TopicPatterns[k], toks)
    IN  IF m.ok THEN Some(CleanTopic(Group1(toks, m))) ELSE None

\* if len(topic) > 3
TopicAccepted(c) == c # None /\ StrLen(c[1]) > MinValueLen

\* duration_patterns, in the order of the list
DurationPatterns ==
    << \* (\d+)\s*(?:-|to)?\s*weeks?(?:\s+long)?
       << Open, Tok(Numbers), Close, Opt(<< <<"-">>, <<"to">> >>),
          Tok(WeekWords), Opt(<< <<"long">> >>) >>,
       \* (?:duration|lasting|takes?|span(?:ning)?|over|in)\s*[:\-]?\s*(\d+)\s*weeks?
       << Tok({"duration", "lasting", "take", "takes", "span", "spanning",
               "over", "in"}),
          Opt(<< <<":">>, <<"-">> >>), Open, Tok(Numbers), Close,
          Tok(WeekWords) >>,
       \* (?:for|across|throughout)\s+(\d+)\s*weeks?
       << Tok({"for", "across", "throughout"}), Open, Tok(Numbers), Close,
          Tok(WeekWords) >>,
       \* (\d+)\s*week\s+(?:course|program|class)
       << Open, Tok(Numbers), Close, Tok({"week"}),
          Tok({"course", "program", "class"}) >>,
       \* (?:weekly|week by week)\s+(?:for\s+)?(\d+)\s+weeks?
       << Alt(<< <<"weekly">>, <<"week", "by", "week">> >>),
          Opt(<< <<"for">> >>), Open, Tok(Numbers), Close, Tok(WeekWords) >> >>

\* weeks = int(match.group(1)) for pattern k, None without a match
DurationCandidate(toks, k) ==
    LET m == Search(DurationPatterns[k], toks)
    IN  IF m.ok THEN Some(ToInt(toks[m.from])) ELSE None

\* DurationAccepted without the upper limit
DurationAccepted_NoUpper(c) == c # None /\ MinWeeks <= c[1]

\* if 1 <= weeks <= 52
DurationAccepted(c) == c # None /\ MinWeeks <= c[1] /\ c[1] <= MaxWeeks

\* lessons_patterns, in the order of the list
LessonsPatterns ==
    << \* (\d+)\s*lessons?\s+(?:per|in\s+each|for\s+each)\s+module
       << Open, Tok(Numbers), Close, Tok(LessonWords),
          Alt(<< <<"per">>, <<"in", "each">>, <<"for", "each">> >>),
          Tok({"module"}) >>,
       \* (?:lessons per module|module lessons)\s*[:\-]?\s*(\d+)
       << Alt(<< <<"lessons", "per", "module">>, <<"module", "lessons">> >>),
          Opt(<< <<":">>, <<"-">> >>), Open, Tok(Numbers), Close >>,
       \* each\s+module\s+(?:has|contains|includes)\s+(\d+)\s*lessons?
       << Tok({"each"}), Tok({"module"}), Tok({"has", "contains", "includes"}),
          Open, Tok(Numbers), Close, Tok(LessonWords) >>,
       \* (\d+)\s*lessons?\s+(?:in|per)\s+(?:each|every)\s+module
       << Open, Tok(Numbers), Close, Tok(LessonWords), Tok({"in", "per"}),
          Tok({"each", "every"}), Tok({"module"}) >> >>

\* lessons = int(match.group(1)) for pattern k, None without a match
LessonsCandidate(toks, k) ==
    LET m == Search(LessonsPatterns[k], toks)
    IN  IF m.ok THEN Some(ToInt(toks[m.from])) ELSE None

\* if 1 <= lessons <= 20
LessonsAccepted(c) ==
    c # None /\ MinLessonsPerModule <= c[1] /\ c[1] <= MaxLessonsPerModule

Developers == {"developer", "developers", "engineer", "engineers",
               "programmer", "programmers"}

\* audience_patterns, in the order of the list
AudiencePatterns ==
    << \* (?:for|aimed at|targeting|designed for|intended for)\s+([^\n,.;]+?)(?:...)
       << Alt(<< <<"for">>, <<"aimed", "at">>, <<"targeting">>,
                 <<"designed", "for">>, <<"intended", "for">> >>),
          Open, Lazy(Punctuation), Close,
          Term({"who", "that", "with", "wanting", "interested", "looking"}
               \cup CaptureEnd) >>,
       \* (?:target|target audience|audience)\s*[:\-]\s*([^\n,.;]+?)(?:[,.\n]|$)
       << Alt(<< <<"target">>, <<"target", "audience">>, <<"audience">> >>),
          Tok({":", "-"}), Open, Lazy(Punctuation), Close, Term(CaptureEnd) >>,
       \* \b((?:college|university|...)\s+students?)\b
       << Open,
          Alt(<< <<"college">>, <<"university">>, <<"high", "school">>,
                 <<"graduate">>, <<"undergraduate">>, <<"phd">>, <<"doctoral">>,
                 <<"medical">>, <<"engineering">>, <<"business">>, <<"law">>,
                 <<"nursing">> >>),
          Tok({"student", "students"}), Close >>,
       \* \b((?:software|web|...)\s+(?:developers?|engineers?|programmers?))\b
       << Open,
          Alt(<< <<"software">>, <<"web">>, <<"data">>, <<"machine", "learning">>,
                 <<"ai">>, <<"cloud">>, <<"mobile">>, <<"frontend">>,
                 <<"backend">>, <<"full", "stack">>, <<"fullstack">> >>),
          Tok(Developers), Close >>,
       \* \b((?:aspiring|junior|...)\s+(?:developers?|...|professionals?))\b
       << Open,
          Tok({"aspiring", "junior", "senior", "lead", "staff", "principal"}),
          Tok(Developers \cup {"professional", "professionals"}), Close >>,
       \* \b((?:beginners?|novices?|experts?|...))\b
       << Open,
          Tok({"beginner", "beginners", "novice", "novices", "expert",
               "experts", "professional", "professionals", "practitioner",
               "practitioners", "enthusiast", "enthusiasts", "hobbyist",
               "hobbyists"}),
          Close >>,
       \* \b((?:managers?|leaders?|...))\b
       << Open,
          Tok({"manager", "managers", "leader", "leaders", "executive",
               "executives", "analyst", "analysts", "consultant",
               "consultants", "researcher", "researchers", "scientist",
               "scientists"}),
          Close >> >>

\* re.sub(r'^(?:the\s+)?', '', audience)
CleanAudience(a) == IF Len(a) >= 2 /\ a[1] = "the" THEN Tail(a) ELSE a

\* the value pattern k of the audience list yields, None without a match
AudienceCandidate(toks, k) ==
    LET m == Search(AudiencePatterns[k], toks)
    IN  IF m.ok THEN Some(CleanAudience(Group1(toks, m))) ELSE None

\* if len(audience) > 3
AudienceAccepted(c) == c # None /\ StrLen(c[1]) > MinValueLen

\* difficulty_mappings, in the order of the dict
DifficultyMappings ==
    << [level |-> "beginner",
        keywords |-> { <<"beginner">>, <<"beginners">>, <<"basic">>,
                       <<"introductory">>, <<"intro">>, <<"fundamental">>,
                       <<"elementary">>, <<"starter">>, <<"novice">>,
                       <<"entry", "level">>, <<"entry-level">>, <<"starting">> }],
       [level |-> "intermediate",
        keywords |-> { <<"intermediate">>, <<"mid", "level">>, <<"mid-level">>,
                       <<"moderate">>, <<"standard">>, <<"regular">>,
                       <<"average">> }],
       [level |-> "advanced",
        keywords |-> { <<"advanced">>, <<"expert">>, <<"professional">>,
                       <<"senior">>, <<"high", "level">>, <<"high-level">>,
                       <<"complex">>, <<"sophisticated">>, <<"in-depth">>,
                       <<"in", "depth">>, <<"deep", "dive">> }] >>

\* re.search(rf'\b{re.escape(keyword)}\b', prompt_lower)
HasWords(toks, w) ==
    \E i \in 1..(Len(toks) - Len(w) + 1) : SubSeq(toks, i, i + Len(w) - 1) = w

\* ExtractDifficulty by position: the level of the keyword that comes first
\* in the prompt
ExtractDifficulty_ByPosition(toks, k) ==
    LET hits == { h \in (1..Len(toks)) \X (k..Len(DifficultyMappings)) :
                    \E w \in DifficultyMappings[h[2]].keywords :
                        /\ h[1] + Len(w) - 1 <= Len(toks)
                        /\ SubSeq(toks, h[1], h[1] + Len(w) - 1) = w }
        first == CHOOSE h \in hits :
                    \A g \in hits : h[1] < g[1] \/ (h[1] = g[1] /\ h[2] <= g[2])
    IN  IF hits = {} THEN None ELSE Some(DifficultyMappings[first[2]].level)

\* the loop over difficulty_mappings: the first level with a keyword present
RECURSIVE ExtractDifficulty(_, _)
ExtractDifficulty(toks, k) ==
    IF k > Len(DifficultyMappings) THEN None
    ELSE IF \E w \in DifficultyMappings[k].keywords : HasWords(toks, w)
    THEN Some(DifficultyMappings[k].level)
    ELSE ExtractDifficulty(toks, k + 1)

\* for pattern in topic_patterns: ... break: the first candidate accepted
RECURSIVE ExtractTopic(_, _)
ExtractTopic(toks, k) ==
    IF k > Len(TopicPatterns) THEN None
    ELSE IF TopicAccepted(TopicCandidate(toks, k)) THEN TopicCandidate(toks, k)
    ELSE ExtractTopic(toks, k + 1)

\* mutant of ExtractDuration: the loop ends at the first pattern that matches
ExtractDuration_FirstMatch(toks, k) ==
    LET matching == { j \in k..Len(DurationPatterns) :
                        DurationCandidate(toks, j) # None }
        first == CHOOSE j \in matching : \A i \in matching : j <= i
    IN  IF matching = {} THEN None
        ELSE IF DurationAccepted(DurationCandidate(toks, first))
        THEN DurationCandidate(toks, first)
        ELSE None

\* for pattern in duration_patterns: ... break
RECURSIVE ExtractDuration(_, _)
ExtractDuration(toks, k) ==
    IF k > Len(DurationPatterns) THEN None
    ELSE IF DurationAccepted(DurationCandidate(toks, k))
    THEN DurationCandidate(toks, k)
    ELSE ExtractDuration(toks, k + 1)

\* for pattern in audience_patterns: ... break
RECURSIVE ExtractAudience(_, _)
ExtractAudience(toks, k) ==
    IF k > Len(AudiencePatterns) THEN None
    ELSE IF AudienceAccepted(AudienceCandidate(toks, k))
    THEN AudienceCandidate(toks, k)
    ELSE ExtractAudience(toks, k + 1)

\* for pattern in lessons_patterns: ... break
RECURSIVE ExtractLessons(_, _)
ExtractLessons(toks, k) ==
    IF k > Len(LessonsPatterns) THEN None
    ELSE IF LessonsAccepted(LessonsCandidate(toks, k))
    THEN LessonsCandidate(toks, k)
    ELSE ExtractLessons(toks, k + 1)

\* mutant of OrDefault: the value is returned as extracted
OrDefault_Absent(v, default) == v

\* if params[...] is None: params[...] = <default>
OrDefault(v, default) == IF v = None THEN Some(default) ELSE v

\* params as returned: the defaults applied to the four optional fields
ExtractParams(p) ==
    LET prompt_lower == LowerTokens(p)
    IN  [topic |-> ExtractTopic(prompt_lower, 1),
         duration_weeks |->
             OrDefault(ExtractDuration(prompt_lower, 1), DefaultWeeks),
         difficulty |-> OrDefault(ExtractDifficulty(prompt_lower, 1), "beginner"),
         target_audience |->
             OrDefault(ExtractAudience(prompt_lower, 1), <<"general", "learners">>),
         lessons_per_module |->
             OrDefault(ExtractLessons(prompt_lower, 1), DefaultLessonsPerModule)]

\* mutant of MissingFields: the defaulted audience is reported as well
MissingFields_Audience(ps) ==
    (IF ps.topic = None THEN <<"Course Topic">> ELSE <<>>)
    \o (IF ps.target_audience = <<<<"general", "learners">>>>
        THEN <<"Target Audience">> ELSE <<>>)

\* if not params['topic']: missing_fields.append('Course Topic')
MissingFields(ps) ==
    IF ps.topic = None \/ ps.topic = Some(<<>>) THEN <<"Course Topic">> ELSE <<>>

\* a run of the extractor starts with a prompt and nothing else
InitExtract ==
    /\ CleanupOff
    /\ FlaskOff
    /\ AgentAt("off")
    /\ prompt \in Prompts
    /\ params = NoParams
    /\ missing = <<>>
    /\ xpc = "start"
    /\ response = NoResponse
    /\ ExportOff

\* extract_course_parameters(prompt)
Extract ==
    /\ xpc = "start"
    /\ params' = ExtractParams(prompt)
    /\ missing' = MissingFields(params')
    /\ xpc' = "extracted"
    /\ UNCHANGED <<prompt, response>>
    /\ UNCHANGED outsideExtract

\* POST /api/validate with {"prompt": prompt}
ValidateRequirements ==
    /\ xpc = "start"
    /\ IF prompt = <<>>
       THEN /\ response' = [status |-> 400, success |-> FALSE]
            /\ UNCHANGED <<params, missing>>
       ELSE /\ params' = ExtractParams(prompt)
            /\ missing' = MissingFields(params')
            /\ response' = [status |-> 200, success |-> TRUE,
                            params |-> params', missing |-> missing',
                            is_valid |-> (Len(missing') = 0)]
    /\ xpc' = "validated"
    /\ UNCHANGED prompt
    /\ UNCHANGED outsideExtract

NextExtract ==
    \/ Extract
    \/ ValidateRequirements

SpecExtract == InitExtract /\ [][NextExtract]_vars

\* the extractor before its run on the prompt p
ExtractorAt(p) ==
    /\ CleanupOff
    /\ FlaskOff
    /\ AgentAt("off")
    /\ prompt = p
    /\ params = NoParams
    /\ missing = <<>>
    /\ xpc = "start"
    /\ response = NoResponse
    /\ ExportOff

\* the extractor on the prompts with numbers
InitExtractNumbers == \E p \in NumberPrompts : ExtractorAt(p)

SpecExtractNumbers == InitExtractNumbers /\ [][NextExtract]_vars

\* the extractor on the prompts with difficulty synonyms
InitExtractLevels == \E p \in LevelPrompts : ExtractorAt(p)

SpecExtractLevels == InitExtractLevels /\ [][NextExtract]_vars

\* ---------------------------------------------------------------- exports
\* generate_markdown_course and generate_html_course of content_generator.
\* The returned text is a sequence: every character of an interpolated value
\* is an element of its own, and every piece of the template between two
\* interpolations is one element (a piece never equals a character of a
\* value, so a value is found in the text only where it was interpolated
\* or where shorter values and one-character pieces spell it).

\* most modules of an exported course, lessons of a module, items of a list
MaxExportModules == 2
MaxExportLessons == 2
MaxItems == 2

\* str() of a float that round(x, 1) returned, given in tenths
FloatToStr(tenths) ==
    IntToStr(tenths \div 10) \o <<".">> \o <<DigitChar(tenths % 10)>>

\* str.title() on letters and spaces: a letter after a letter is lower-cased,
\* any other letter upper-cased
Title(s) ==
    [i \in 1..Len(s) |->
        IF i > 1 /\ s[i - 1] # " " THEN LowerChar(s[i]) ELSE UpperChar(s[i])]

\* the i-th value of a list: a tag and the number
Item(tag, i) == tag \o IntToStr(i)

\* a list of k values
Items(tag, k) == [i \in 1..k |-> Item(tag, i)]

\* lesson l of module m of an exported course, its lists of k items
ExportLesson(m, l, k) ==
    [title |-> <<"L", "e", "s", "s", "o", "n", " ">> \o IntToStr(m) \o <<"/">> \o IntToStr(l),
     duration_minutes |-> 30 + 15 * l,
     learning_objectives |-> Items(<<"o", "b", "j", "e", "c", "t", "i", "v", "e", " ">>, k),
     content |-> <<"t", "e", "x", "t", " ", "o", "f", " ">> \o IntToStr(m) \o <<"/">> \o IntToStr(l),
     key_points |-> Items(<<"p", "o", "i", "n", "t", " ">>, k),
     activities |-> Items(<<"a", "c", "t", "i", "v", "i", "t", "y", " ">>, k),
     assessment_questions |->
         [i \in 1..k |-> [question |-> Item(<<"w", "h", "y", " ">>, i),
                          answer |-> Item(<<"b", "e", "c", "a", "u", "s", "e", " ">>, i)]]]

\* module m of an exported course with nl lessons
ExportModule(m, nl, k) ==
    [title |-> Item(<<"M", "o", "d", "u", "l", "e", " ", "a", "b", "o", "u", "t", " ">>, m),
     description |-> Item(<<"c", "o", "v", "e", "r", "s", " ", "p", "a", "r", "t", " ">>, m),
     duration_tenths |-> DurationTenths(45 * nl + 15 * m),
     lessons |-> [l \in 1..nl |-> ExportLesson(m, l, k)]]

\* difficulty levels of exported courses: "beginner", "Advanced"
ExportDifficulties == {<<"b", "e", "g", "i", "n", "n", "e", "r">>, <<"A", "d", "v", "a", "n", "c", "e", "d">>}

\* titles of exported courses: "SQL", "Java"
ExportTitles == {<<"S", "Q", "L">>, TopicJava}

\* the course dicts handed to the exporters (export_to_dict of a course)
ExportCourses ==
    { [title |-> t,
       description |-> <<"a", " ", "c", "o", "u", "r", "s", "e">>,
       target_audience |-> <<"a", "l", "l", " ", "l", "e", "a", "r", "n", "e", "r", "s">>,
       difficulty_level |-> d,
       duration_weeks |-> 4 + nm,
       prerequisites |-> Items(<<"k", "n", "o", "w", "s", " ">>, k),
       learning_outcomes |-> Items(<<"c", "a", "n", " ", "d", "o", " ">>, k),
       modules |-> [m \in 1..nm |-> ExportModule(m, nl, k)]] :
      t \in ExportTitles, d \in ExportDifficulties,
      nm \in 0..MaxExportModules, nl \in 0..MaxExportLessons,
      k \in 0..MaxItems }

\* a piece of a template
Lit(s) == <<s>>

\* sep.join(prefix + x + suffix for x in items)
RECURSIVE JoinItems(_, _, _, _)
JoinItems(items, prefix, suffix, sep) ==
    IF items = <<>> THEN <<>>
    ELSE IF Len(items) = 1 THEN prefix \o Head(items) \o suffix
    ELSE prefix \o Head(items) \o suffix \o sep
         \o JoinItems(Tail(items), prefix, suffix, sep)

\* chr(10).join(f"{i}. {activity}" for i, activity in enumerate(..., 1))
RECURSIVE JoinNumbered(_, _)
JoinNumbered(items, k) ==
    IF k = 0 THEN <<>>
    ELSE (IF k = 1 THEN <<>> ELSE JoinNumbered(items, k - 1) \o Lit("\n"))
         \o IntToStr(k) \o Lit(". ") \o items[k]

\* chr(10).join(f"{i}. **Q:** {question}\n   **A:** {answer}" for i, q in ...)
RECURSIVE MarkdownAssessment(_, _)
MarkdownAssessment(qs, k) ==
    IF k = 0 THEN <<>>
    ELSE (IF k = 1 THEN <<>> ELSE MarkdownAssessment(qs, k - 1) \o Lit("\n"))
         \o IntToStr(k) \o Lit(". **Q:** ") \o qs[k].question
         \o Lit("\n   **A:** ") \o qs[k].answer

\* the text appended for lesson lesson_idx of module module_idx
MarkdownLesson(module_idx, lesson_idx, lesson) ==
    Lit("#### Lesson ") \o IntToStr(module_idx) \o Lit(".")
    \o IntToStr(lesson_idx) \o Lit(": ") \o lesson.title
    \o Lit("\n\n**Duration:** ") \o IntToStr(lesson.duration_minutes)
    \o Lit(" minutes\n\n##### Learning Objectives\n")
    \o JoinItems(lesson.learning_objectives, Lit("- "), <<>>, Lit("\n"))
    \o Lit("\n\n##### Content\n") \o lesson.content
    \o Lit("\n\n##### Key Points\n")
    \o JoinItems(lesson.key_points, Lit("- "), <<>>, Lit("\n"))
    \o Lit("\n\n##### Activities\n")
    \o JoinNumbered(lesson.activities, Len(lesson.activities))
    \o Lit("\n\n##### Assessment\n")
    \o MarkdownAssessment(lesson.assessment_questions,
                          Len(lesson.assessment_questions))
    \o Lit("\n\n---\n\n")

RECURSIVE MarkdownLessons(_, _, _)
MarkdownLessons(module_idx, lessons, k) ==
    IF k = 0 THEN <<>>
    ELSE MarkdownLessons(module_idx, lessons, k - 1)
         \o MarkdownLesson(module_idx, k, lessons[k])

\* the text appended for module module_idx
MarkdownModule(module_idx, module) ==
    Lit("### Module ") \o IntToStr(module_idx) \o Lit(": ") \o module.title
    \o Lit("\n\n**Description:** ") \o module.description
    \o Lit("\n\n**Duration:** ") \o FloatToStr(module.duration_tenths)
    \o Lit(" hours\n\n")
    \o MarkdownLessons(module_idx, module.lessons, Len(module.lessons))

RECURSIVE MarkdownModules(_, _)
MarkdownModules(mods, k) ==
    IF k = 0 THEN <<>>
    ELSE MarkdownModules(mods, k - 1) \o MarkdownModule(k, mods[k])

\* generate_markdown_course(course_dict)
GenerateMarkdownCourse(c) ==
    Lit("# ") \o c.title
    \o Lit("\n\n## Course Overview\n\n**Description:** ") \o c.description
    \o Lit("\n\n**Target Audience:** ") \o c.target_audience
    \o Lit("\n\n**Difficulty Level:** ") \o c.difficulty_level
    \o Lit("\n\n**Duration:** ") \o IntToStr(c.duration_weeks)
    \o Lit(" weeks\n\n### Prerequisites\n")
    \o JoinItems(c.prerequisites, Lit("- "), <<>>, Lit("\n"))
    \o Lit("\n\n### Learning Outcomes\n")
    \o JoinItems(c.learning_outcomes, Lit("- "), <<>>, Lit("\n"))
    \o Lit("\n\n---\n\n## Course Content\n\n")
    \o MarkdownModules(c.modules, Len(c.modules))

\* ''.join(f"<p><strong>Q{i}:</strong> {question}<br><strong>A:</strong>
\* {answer}</p>" for i, q in enumerate(..., 1))
RECURSIVE HtmlAssessment(_, _)
HtmlAssessment(qs, k) ==
    IF k = 0 THEN <<>>
    ELSE HtmlAssessment(qs, k - 1)
         \o Lit("<p><strong>Q") \o IntToStr(k) \o Lit(":</strong> ")
         \o qs[k].question \o Lit("<br><strong>A:</strong> ")
         \o qs[k].answer \o Lit("</p>")

\* the markup appended for lesson lesson_idx of module module_idx
HtmlLesson(module_idx, lesson_idx, lesson) ==
    Lit("<h4>Lesson ") \o IntToStr(module_idx) \o Lit(".")
    \o IntToStr(lesson_idx) \o Lit(": ") \o lesson.title
    \o Lit("</h4><p><strong>Duration:</strong> ")
    \o IntToStr(lesson.duration_minutes)
    \o Lit(" minutes</p><h5>Learning Objectives</h5><ul>")
    \o JoinItems(lesson.learning_objectives, Lit("<li>"), Lit("</li>"), <<>>)
    \o Lit("</ul><h5>Content</h5><p>") \o lesson.content
    \o Lit("</p><h5>Key Points</h5><ul>")
    \o JoinItems(lesson.key_points, Lit("<li>"), Lit("</li>"), <<>>)
    \o Lit("</ul><h5>Activities</h5><ol>")
    \o JoinItems(lesson.activities, Lit("<li>"), Lit("</li>"), <<>>)
    \o Lit("</ol><div class=assessment><h5>Assessment</h5>")
    \o HtmlAssessment(lesson.assessment_questions,
                      Len(lesson.assessment_questions))
    \o Lit("</div>")

RECURSIVE HtmlLessons(_, _, _)
HtmlLessons(module_idx, lessons, k) ==
    IF k = 0 THEN <<>>
    ELSE HtmlLessons(module_idx, lessons, k - 1)
         \o HtmlLesson(module_idx, k, lessons[k])

\* the markup appended for module module_idx
HtmlModule(module_idx, module) ==
    Lit("<div class=content-section><h3>Module ") \o IntToStr(module_idx)
    \o Lit(": ") \o module.title
    \o Lit("</h3><p><strong>Description:</strong> ") \o module.description
    \o Lit("</p><p><strong>Duration:</strong> ")
    \o FloatToStr(module.duration_tenths) \o Lit(" hours</p>")
    \o HtmlLessons(module_idx, module.lessons, Len(module.lessons))
    \o Lit("</div>")

RECURSIVE HtmlModules(_, _)
HtmlModules(mods, k) ==
    IF k = 0 THEN <<>>
    ELSE HtmlModules(mods, k - 1) \o HtmlModule(k, mods[k])

\* the difficulty as generate_html_course writes it, without .title()
HtmlDifficulty_Verbatim(c) == c.difficulty_level

\* {course_dict['difficulty_level'].title()}
HtmlDifficulty(c) == Title(c.difficulty_level)

\* generate_html_course(course_dict); the style sheet is one piece
GenerateHtmlCourse(c) ==
    Lit("<!DOCTYPE html><html lang=en><head>...<title>") \o c.title
    \o Lit("</title><style>...</style></head><body><div class=container><h1>")
    \o c.title
    \o Lit("</h1><div class=meta><div class=meta-item><strong>Description:</strong> ")
    \o c.description
    \o Lit("</div><div class=meta-item><strong>Target Audience:</strong> ")
    \o c.target_audience
    \o Lit("</div><div class=meta-item><strong>Difficulty:</strong> ")
    \o HtmlDifficulty(c)
    \o Lit("</div><div class=meta-item><strong>Duration:</strong> ")
    \o IntToStr(c.duration_weeks)
    \o Lit(" weeks</div></div><h2>Prerequisites</h2><ul>")
    \o JoinItems(c.prerequisites, Lit("<li>"), Lit("</li>"), <<>>)
    \o Lit("</ul><h2>Learning Outcomes</h2><ul>")
    \o JoinItems(c.learning_outcomes, Lit("<li>"), Lit("</li>"), <<>>)
    \o Lit("</ul><h2>Course Content</h2>")
    \o HtmlModules(c.modules, Len(c.modules))
    \o Lit("</div></body></html>")

\* an exporter is handed a course dict
InitExport ==
    /\ CleanupOff
    /\ AgentAt("off")
    /\ ExtractOff
    /\ FlaskOff
    /\ course_dict \in ExportCourses
    /\ md = None
    /\ html = None

\* md = generate_markdown_course(course_dict)
ExportMarkdown ==
    /\ course_dict # None
    /\ md = None
    /\ md' = Some(GenerateMarkdownCourse(course_dict))
    /\ UNCHANGED <<course_dict, html>>
    /\ UNCHANGED outsideExport

\* html = generate_html_course(course_dict)
ExportHtml ==
    /\ course_dict # None
    /\ html = None
    /\ html' = Some(GenerateHtmlCourse(course_dict))
    /\ UNCHANGED <<course_dict, md>>
    /\ UNCHANGED outsideExport

NextExport ==
    \/ ExportMarkdown
    \/ ExportHtml

SpecExport == InitExport /\ [][NextExport]_vars

\* ------------------------------------------------------------- app_flask
\* The handlers of app_flask.  A handler takes one step per access to
\* course_storage: what it does between two accesses touches nothing
\* another handler sees.  A model call lies between the steps of the two
\* generation handlers.

\* most requests a sequential run receives, and a threaded run
MaxRequests == 4
MaxThreadedRequests == 3

\* most requests a threaded server handles at a time
MaxThreads == 2

\* prompts posted to /api/generate-course: none, one without a topic, one
\* with a topic
FlaskPrompts == {<<>>, <<"60", "weeks">>, <<"learn", "data", "science">>}

\* extract_course_parameters(course_prompt) for the prompts posted
ExtractedParams == [p \in FlaskPrompts |-> ExtractParams(p)]

\* outcomes of the agent call of a generation handler: it raises, or it
\* returns one of two results
AgentOutcomes == {"raise", "A", "B"}

\* <format> of the export routes: a supported one and one that is not
ExportFormats == {"json", "xml"}
CourseFormats == {"json", "markdown", "html", "pdf"}
RoadmapFormats == {"json", "markdown", "pdf"}

\* agent.export_to_dict(course) of the course generated for ps when the
\* model answered v: result A has one module, result B has two
StoredCourse(ps, v) ==
    [title |-> <<ps.topic[1], v>>,
     modules |-> IF v = "A" THEN 1 ELSE 2,
     duration_weeks |-> ps.duration_weeks[1],
     difficulty_level |-> ps.difficulty[1],
     target_audience |-> ps.target_audience[1]]

\* datetime.now().strftime("%Y-%m-%d") as read by generate_roadmap
Dates == {"2026-11-04", "2026-11-05"}

\* roadmap_agent.export_to_dict(roadmap) of the roadmap generated from
\* course on the day today when the model answered v
StoredRoadmap(course, today, v) ==
    [course_title |-> course.title,
     total_modules |-> course.modules,
     start_date |-> today,
     total_duration_weeks |-> course.duration_weeks,
     difficulty_level |-> course.difficulty_level,
     weekly_schedule |-> v]

\* jsonify({'success': success, ...}), status
JsonResponse(success, status, body) ==
    [success |-> success, status |-> status, body |-> body]

\* a request is received while the server has a free thread
MayStart(budget) ==
    /\ threads > 0
    /\ started < budget
    /\ Cardinality(inflight) < threads

Budget == IF threads > 1 THEN MaxThreadedRequests ELSE MaxRequests

\* the handler of request h.id responds
Respond(h, resp) ==
    log' = Append(log, [id |-> h.id, kind |-> h.kind, input |-> h.input,
                        seen |-> h.seen, today |-> h.today,
                        outcome |-> h.outcome,
                        success |-> resp.success,
                        status |-> resp.status, body |-> resp.body])

\* a handler at its start
Handler(kind, input) ==
    [id |-> started + 1, kind |-> kind, input |-> input, seen |-> None,
     today |-> None, outcome |-> "none", pc |-> "start"]

\* GenerateCourseBegin looking at the prompt before the API key
GenerateCourseBegin_PromptFirst ==
    /\ MayStart(Budget)
    /\ \E course_prompt \in FlaskPrompts :
          LET h == Handler("generate-course", course_prompt)
              ps == ExtractedParams[course_prompt]
          IN  /\ started' = started + 1
              /\ IF course_prompt = <<>>
                 THEN /\ Respond(h, JsonResponse(FALSE, 400, "Please enter course requirements"))
                      /\ UNCHANGED inflight
                 ELSE IF ~api_key
                 THEN /\ Respond(h, JsonResponse(FALSE, 500, "API key not configured"))
                      /\ UNCHANGED inflight
                 ELSE IF MissingFields(ps) # <<>>
                 THEN /\ Respond(h, JsonResponse(FALSE, 400, MissingFields(ps)))
                      /\ UNCHANGED inflight
                 ELSE /\ inflight' = inflight \cup {[h EXCEPT !.pc = "call"]}
                      /\ UNCHANGED log
    /\ UNCHANGED <<api_key, threads, course_storage>>
    /\ UNCHANGED outsideFlask

\* generate_course up to agent.generate_complete_course(...)
GenerateCourseBegin ==
    /\ MayStart(Budget)
    /\ \E course_prompt \in FlaskPrompts :
          LET h == Handler("generate-course", course_prompt)
              ps == ExtractedParams[course_prompt]
          IN  /\ started' = started + 1
              /\ IF ~api_key
                 THEN /\ Respond(h, JsonResponse(FALSE, 500, "API key not configured"))
                      /\ UNCHANGED inflight
                 ELSE IF course_prompt = <<>>
                 THEN /\ Respond(h, JsonResponse(FALSE, 400, "Please enter course requirements"))
                      /\ UNCHANGED inflight
                 ELSE IF MissingFields(ps) # <<>>
                 THEN /\ Respond(h, JsonResponse(FALSE, 400, MissingFields(ps)))
                      /\ UNCHANGED inflight
                 ELSE /\ inflight' = inflight \cup {[h EXCEPT !.pc = "call"]}
                      /\ UNCHANGED log
    /\ UNCHANGED <<api_key, threads, course_storage>>
    /\ UNCHANGED outsideFlask

\* GenerateCourseEnd forgetting the stored course when generation fails
GenerateCourseEnd_ResetOnError ==
    /\ \E h \in inflight, o \in AgentOutcomes :
          /\ h.kind = "generate-course"
          /\ h.pc = "call"
          /\ inflight' = inflight \ {h}
          /\ IF o = "raise"
             THEN /\ Respond([h EXCEPT !.outcome = o], JsonResponse(FALSE, 500, "error"))
                  /\ course_storage' =
                        [course_storage EXCEPT !.course_content = None]
             ELSE LET course == StoredCourse(ExtractedParams[h.input], o)
                  IN  /\ course_storage' =
                            [course_storage EXCEPT !.course_content = Some(course)]
                      /\ Respond([h EXCEPT !.outcome = o],
                                 JsonResponse(TRUE, 200, Some(course)))
    /\ UNCHANGED <<api_key, threads, started>>
    /\ UNCHANGED outsideFlask

\* GenerateCourseEnd discarding the stored roadmap with the old course
GenerateCourseEnd_DropsRoadmap ==
    /\ \E h \in inflight, o \in AgentOutcomes :
          /\ h.kind = "generate-course"
          /\ h.pc = "call"
          /\ inflight' = inflight \ {h}
          /\ IF o = "raise"
             THEN /\ Respond([h EXCEPT !.outcome = o], JsonResponse(FALSE, 500, "error"))
                  /\ UNCHANGED course_storage
             ELSE LET course == StoredCourse(ExtractedParams[h.input], o)
                  IN  /\ course_storage' =
                            [course_content |-> Some(course), course_roadmap |-> None]
                      /\ Respond([h EXCEPT !.outcome = o],
                                 JsonResponse(TRUE, 200, Some(course)))
    /\ UNCHANGED <<api_key, threads, started>>
    /\ UNCHANGED outsideFlask

\* GenerateCourseEnd answering with the course already stored, if any
GenerateCourseEnd_Cached ==
    /\ \E h \in inflight, o \in AgentOutcomes :
          /\ h.kind = "generate-course"
          /\ h.pc = "call"
          /\ inflight' = inflight \ {h}
          /\ IF o = "raise"
             THEN /\ Respond([h EXCEPT !.outcome = o], JsonResponse(FALSE, 500, "error"))
                  /\ UNCHANGED course_storage
             ELSE LET course == IF course_storage.course_content # None
                                THEN course_storage.course_content[1]
                                ELSE StoredCourse(ExtractedParams[h.input], o)
                  IN  /\ course_storage' =
                            [course_storage EXCEPT !.course_content = Some(course)]
                      /\ Respond([h EXCEPT !.outcome = o],
                                 JsonResponse(TRUE, 200, Some(course)))
    /\ UNCHANGED <<api_key, threads, started>>
    /\ UNCHANGED outsideFlask

\* generate_course from the return of the agent call: the course is stored
\* and returned, or the exception is answered with 500
GenerateCourseEnd ==
    /\ \E h \in inflight, o \in AgentOutcomes :
          /\ h.kind = "generate-course"
          /\ h.pc = "call"
          /\ inflight' = inflight \ {h}
          /\ IF o = "raise"
             THEN /\ Respond([h EXCEPT !.outcome = o], JsonResponse(FALSE, 500, "error"))
                  /\ UNCHANGED course_storage
             ELSE LET course == StoredCourse(ExtractedParams[h.input], o)
                  IN  /\ course_storage' =
                            [course_storage EXCEPT !.course_content = Some(course)]
                      /\ Respond([h EXCEPT !.outcome = o],
                                 JsonResponse(TRUE, 200, Some(course)))
    /\ UNCHANGED <<api_key, threads, started>>
    /\ UNCHANGED outsideFlask

\* generate_roadmap up to roadmap_agent.generate_roadmap_from_modules(...)
GenerateRoadmapBegin ==
    /\ MayStart(Budget)
    /\ LET h == Handler("generate-roadmap", <<>>)
           course == course_storage.course_content
       IN  /\ started' = started + 1
           /\ IF ~api_key
              THEN /\ Respond(h, JsonResponse(FALSE, 500, "API key not configured"))
                   /\ UNCHANGED inflight
              ELSE IF course = None
              THEN /\ Respond(h, JsonResponse(FALSE, 400, "Please generate course content first"))
                   /\ UNCHANGED inflight
              ELSE /\ \E today \in Dates :
                        inflight' =
                           inflight \cup {[h EXCEPT !.pc = "call",
                                                    !.seen = course,
                                                    !.today = Some(today)]}
                   /\ UNCHANGED log
    /\ UNCHANGED <<api_key, threads, course_storage>>
    /\ UNCHANGED outsideFlask

\* generate_roadmap from the return of the agent call: the roadmap is
\* stored and returned, or the exception is answered with 500
GenerateRoadmapEnd ==
    /\ \E h \in inflight, o \in AgentOutcomes :
          /\ h.kind = "generate-roadmap"
          /\ h.pc = "call"
          /\ inflight' = inflight \ {h}
          /\ IF o = "raise"
             THEN /\ Respond([h EXCEPT !.outcome = o], JsonResponse(FALSE, 500, "error"))
                  /\ UNCHANGED course_storage
             ELSE LET roadmap == StoredRoadmap(h.seen[1], h.today[1], o)
                  IN  /\ course_storage' =
                            [course_storage EXCEPT !.course_roadmap = Some(roadmap)]
                      /\ Respond([h EXCEPT !.outcome = o],
                                 JsonResponse(TRUE, 200, Some(roadmap)))
    /\ UNCHANGED <<api_key, threads, started>>
    /\ UNCHANGED outsideFlask

\* ClearDataContent leaving the stored course in place
ClearDataContent_Keep ==
    /\ MayStart(Budget)
    /\ started' = started + 1
    /\ inflight' = inflight \cup {[Handler("clear", <<>>) EXCEPT !.pc = "roadmap"]}
    /\ UNCHANGED <<api_key, threads, log, course_storage>>
    /\ UNCHANGED outsideFlask

\* clear_data: course_storage['course_content'] = None
ClearDataContent ==
    /\ MayStart(Budget)
    /\ started' = started + 1
    /\ course_storage' = [course_storage EXCEPT !.course_content = None]
    /\ inflight' = inflight \cup {[Handler("clear", <<>>) EXCEPT !.pc = "roadmap"]}
    /\ UNCHANGED <<api_key, threads, log>>
    /\ UNCHANGED outsideFlask

\* ClearDataRoadmap leaving the stored roadmap in place
ClearDataRoadmap_Keep ==
    /\ \E h \in inflight :
          /\ h.kind = "clear"
          /\ h.pc = "roadmap"
          /\ inflight' = inflight \ {h}
          /\ Respond(h, JsonResponse(TRUE, 200, "Data cleared successfully"))
    /\ UNCHANGED <<api_key, threads, started, course_storage>>
    /\ UNCHANGED outsideFlask

\* clear_data: course_storage['course_roadmap'] = None and the response
ClearDataRoadmap ==
    /\ \E h \in inflight :
          /\ h.kind = "clear"
          /\ h.pc = "roadmap"
          /\ inflight' = inflight \ {h}
          /\ course_storage' = [course_storage EXCEPT !.course_roadmap = None]
          /\ Respond(h, JsonResponse(TRUE, 200, "Data cleared successfully"))
    /\ UNCHANGED <<api_key, threads, started>>
    /\ UNCHANGED outsideFlask

\* export_course(format)
ExportCourse ==
    /\ MayStart(Budget)
    /\ \E format \in ExportFormats :
          LET h == [Handler("export", format) EXCEPT
                        !.seen = course_storage.course_content]
          IN  IF h.seen = None
              THEN Respond(h, JsonResponse(FALSE, 400, "No course content to export"))
              ELSE IF format \in CourseFormats
              THEN Respond(h, JsonResponse(TRUE, 200, h.seen))
              ELSE Respond(h, JsonResponse(FALSE, 400, "Unsupported format"))
    /\ started' = started + 1
    /\ UNCHANGED <<api_key, threads, course_storage, inflight>>
    /\ UNCHANGED outsideFlask

\* export_roadmap(format)
ExportRoadmap ==
    /\ MayStart(Budget)
    /\ \E format \in ExportFormats :
          LET h == [Handler("export-roadmap", format) EXCEPT
                        !.seen = course_storage.course_roadmap]
          IN  IF h.seen = None
              THEN Respond(h, JsonResponse(FALSE, 400, "No roadmap to export"))
              ELSE IF format \in RoadmapFormats
              THEN Respond(h, JsonResponse(TRUE, 200, h.seen))
              ELSE Respond(h, JsonResponse(FALSE, 400, "Unsupported format"))
    /\ started' = started + 1
    /\ UNCHANGED <<api_key, threads, course_storage, inflight>>
    /\ UNCHANGED outsideFlask

\* validate_requirements: the prompt is checked and extracted from, nothing
\* is stored
ValidateRequest ==
    /\ MayStart(Budget)
    /\ \E course_prompt \in FlaskPrompts :
          LET h == Handler("validate", course_prompt)
              ps == ExtractedParams[course_prompt]
          IN  IF course_prompt = <<>>
              THEN Respond(h, JsonResponse(FALSE, 400, "Please enter course requirements"))
              ELSE Respond(h, JsonResponse(TRUE, 200, <<ps, MissingFields(ps)>>))
    /\ started' = started + 1
    /\ UNCHANGED <<api_key, threads, course_storage, inflight>>
    /\ UNCHANGED outsideFlask

\* the application serves one request at a time, the key set or not
InitFlask ==
    /\ CleanupOff
    /\ AgentAt("off")
    /\ ExtractOff
    /\ ExportOff
    /\ api_key \in BOOLEAN
    /\ threads = 1
    /\ course_storage = EmptyStorage
    /\ inflight = {}
    /\ started = 0
    /\ log = <<>>

\* the application serves requests on threads (app.run: threaded)
InitFlaskThreaded ==
    /\ CleanupOff
    /\ AgentAt("off")
    /\ ExtractOff
    /\ ExportOff
    /\ api_key = TRUE
    /\ threads = MaxThreads
    /\ course_storage = EmptyStorage
    /\ inflight = {}
    /\ started = 0
    /\ log = <<>>

NextFlask ==
    \/ GenerateCourseBegin
    \/ GenerateCourseEnd
    \/ GenerateRoadmapBegin
    \/ GenerateRoadmapEnd
    \/ ClearDataContent
    \/ ClearDataRoadmap
    \/ ExportCourse
    \/ ExportRoadmap
    \/ ValidateRequest

SpecFlask == InitFlask /\ [][NextFlask]_vars

SpecFlaskThreaded == InitFlaskThreaded /\ [][NextFlask]_vars

\* -------------------------------------------------------------- properties
FailureKinds == {"raise", "unparsable", "empty"}

\* the batch requests sent for module j
BatchIdx(j) ==
    { i \in 1..Len(requests) :
        requests[i].kind = "batch" /\ requests[i].module = j }

\* the batch requests that were answered with no usable lessons
FailedBatches ==
    { i \in 1..Len(answers) : requests[i].kind = "batch" /\ ~answers[i].ok }

RECURSIVE SumSizes(_)
SumSizes(S) ==
    IF S = {} THEN 0
    ELSE LET i == CHOOSE x \in S : TRUE
         IN  requests[i].size + SumSizes(S \ {i})

\* lessons a batch call contributes: what it returned, or one per slot
RECURSIVE SumDelivered(_)
SumDelivered(S) ==
    IF S = {} THEN 0
    ELSE LET i == CHOOSE x \in S : TRUE
         IN  (IF answers[i].ok THEN answers[i].count ELSE requests[i].size)
                 + SumDelivered(S \ {i})

\* the calls of generate_module_content that have returned
ReturnedCalls ==
    (1..Len(modules)) \cup (IF pc = "module_return" THEN {modIdx} ELSE {})

\* the list generate_module_content returned for module j
ReturnedList(j) == IF j <= Len(modules) THEN modules[j].lessons ELSE all_lessons

\* C1 as stated: for every requested lesson count n >= 0 and every pattern
\* of batch outcomes, generate_module_content returns exactly n lessons.
C1_ExactlyRequestedCount ==
    \A j \in ReturnedCalls : n >= 0 => Len(ReturnedList(j)) = n

\* C1 amended: the returned list holds, per batch call, the lessons the call
\* returned, or as many placeholders as it asked for when it failed; so it
\* holds exactly n lessons when every successful batch returned as many
\* lessons as it was asked for.
C1_CountFollowsBatchAnswers ==
    \A j \in ReturnedCalls :
        n >= 0 =>
            /\ Len(ReturnedList(j)) = SumDelivered(BatchIdx(j))
            /\ (\A i \in BatchIdx(j) :
                    answers[i].ok => answers[i].count = requests[i].size)
                => Len(ReturnedList(j)) = n

C1_Witness ==
    /\ pc = "module_return"
    /\ n = 3
    /\ Len(all_lessons) = 3
    /\ \E i \in BatchIdx(modIdx) : ~answers[i].ok
    /\ \E i \in BatchIdx(modIdx) : answers[i].ok

\* C2: a failed lesson batch never leaves the invocation as an exception:
\* the next batch of the module is requested, the following modules are
\* processed, and the course is returned with every module of the outline.
C2_FailedBatchDoesNotAbort ==
    \A i \in FailedBatches :
        LET r == requests[i]
            asked == SumSizes({ x \in BatchIdx(r.module) :
                                  requests[x].batch_num <= r.batch_num })
        IN  /\ error = "none"
            /\ pc \in {"batch", "module_return", "done"}
            /\ pc = "done" => Len(modules) = Len(outline.modules)
            /\ IF asked < n
               THEN /\ i < Len(requests)
                    /\ requests[i + 1].kind = "batch"
                    /\ requests[i + 1].module = r.module
                    /\ requests[i + 1].batch_num = r.batch_num + 1
               ELSE \/ pc = "module_return" /\ modIdx = r.module
                    \/ /\ Len(modules) >= r.module
                       /\ IF r.module < Len(outline.modules)
                          THEN /\ i < Len(requests)
                               /\ requests[i + 1].kind = "batch"
                               /\ requests[i + 1].module = r.module + 1
                               /\ requests[i + 1].batch_num = 1
                          ELSE pc = "done"

C2_Witness ==
    /\ pc = "done"
    /\ n = 3
    /\ Len(modules) = 2
    /\ \E i \in FailedBatches :
          requests[i].module = 1 /\ requests[i].batch_num = 1
    /\ Cardinality(BatchIdx(2)) = 2

\* C3: when a batch call that asked for b lessons fails, exactly b
\* placeholders are appended in its place, each with duration_minutes 45,
\* content 'Content to be developed.' and title 'Lesson k', k its 1-based
\* position in the module's lesson list.
C3_PlaceholdersOnFailure ==
    [][ (pc = "batch" /\ Len(answers') = Len(answers) + 1
            /\ last'.kind \in FailureKinds)
        => LET b == requests[Len(requests)].size
               old == Len(all_lessons)
           IN  /\ Len(all_lessons') = old + b
               /\ SubSeq(all_lessons', 1, old) = all_lessons
               /\ \A k \in (old + 1)..(old + b) :
                     /\ all_lessons'[k].title = <<"Lesson", k>>
                     /\ all_lessons'[k].duration_minutes = 45
                     /\ all_lessons'[k].content = "Content to be developed."
      ]_vars

C3_Witness ==
    /\ last.kind \in FailureKinds
    /\ pc = "module_return"
    /\ Len(all_lessons) = 4
    /\ all_lessons[1].title = <<"Generated lesson", 1>>
    /\ all_lessons[4].title = <<"Lesson", 4>>

\* C4: every lesson batch call asks for 1 or 2 lessons, and the sizes asked
\* for by the calls of one invocation of generate_module_content sum to n
\* (n >= 0).
C4_BatchSizes ==
    /\ \A i \in 1..Len(requests) :
          requests[i].kind = "batch" => requests[i].size \in {1, 2}
    /\ \A j \in ReturnedCalls : n >= 0 => SumSizes(BatchIdx(j)) = n

C4_Witness ==
    /\ pc = "done"
    /\ n = 3
    /\ Len(modules) = 2
    /\ \E i \in BatchIdx(2) : requests[i].size = 1
    /\ \E i \in BatchIdx(2) : requests[i].size = 2


\* the words of a string: its maximal runs of characters other than space
IsWordAt(str, i, j) ==
    /\ 1 <= i /\ i <= j /\ j <= Len(str)
    /\ \A k \in i..j : str[k] # " "
    /\ i = 1 \/ str[i - 1] = " "
    /\ j = Len(str) \/ str[j + 1] = " "

\* str[i..j] occurs in text at some position
OccursIn(str, i, j, text) ==
    \E p \in 0..(Len(text) - (j - i + 1)) :
        \A k \in i..j : text[p + k - i + 1] = str[k]

\* the title contains, case-insensitively, a word of the topic that is
\* longer than minlen characters
TitleHasKeyword(outl, top, minlen) ==
    outl.has_title /\
    \E i, j \in 1..Len(top) :
        /\ IsWordAt(top, i, j)
        /\ j - i + 1 > minlen
        /\ OccursIn(Lower(top), i, j, Lower(outl.title))

\* the step of CourseContentAgent.generate_complete_course that handles a
\* parsed first outline
FirstOutlineParsed ==
    /\ op = "plain"
    /\ pc = "outline"
    /\ Len(answers') = 1
    /\ answers'[1].ok

StrictRequestSent ==
    \E i \in 1..Len(requests) : requests[i].kind = "outline_strict"

OutlineRequests ==
    { i \in 1..Len(requests) :
        requests[i].kind \in {"outline", "outline_strict", "outline_fallback"} }

\* C6: one invocation of CourseContentAgent.generate_complete_course sends
\* at most two outline requests; the second is sent only after the topic
\* check on the first title failed; the re-generated outline is used as it
\* is, without another topic check and without a third request.
C6_AtMostOneRegeneration ==
    op = "plain" =>
        /\ Cardinality(OutlineRequests) <= 2
        /\ \A i \in 1..Len(requests) :
              requests[i].kind = "outline_strict"
                  => i = 2 /\ requests[1].kind = "outline" /\ answers[1].ok
        /\ pc = "regen" => ~TitleHasKeyword(outline, topic, 3)
        /\ (StrictRequestSent /\ Len(answers) >= 2 /\ answers[2].ok)
              => /\ pc \in {"batch", "module_return", "done", "raised"}
                 /\ pc = "raised" => error = "ValueError" /\ outline.modules = <<>>
                 /\ title = (IF outline.has_title THEN outline.title ELSE topic)
                 /\ \A i \in 3..Len(requests) : requests[i].kind = "batch"

C6_Witness ==
    /\ op = "plain"
    /\ pc = "done"
    /\ StrictRequestSent
    /\ outline.has_title
    /\ ~TitleHasKeyword(outline, topic, 3)
    /\ title = outline.title

\* no two batch requests ask for the same batch of the same module, and
\* the batches of a module are asked for in the order 1, 2, ...
BatchesRequestedOnce ==
    \A i \in 1..Len(requests) :
        requests[i].kind = "batch" =>
            /\ \A j \in 1..Len(requests) :
                  (requests[j].kind = "batch"
                      /\ requests[j].module = requests[i].module
                      /\ requests[j].batch_num = requests[i].batch_num) => j = i
            /\ requests[i].batch_num > 1 =>
                  /\ requests[i - 1].kind = "batch"
                  /\ requests[i - 1].module = requests[i].module
                  /\ requests[i - 1].batch_num = requests[i].batch_num - 1

\* C7 as stated: each lesson batch is requested exactly once, and
\* generate_roadmap_from_modules and the LangChain outline requester send
\* their prompt at most once per invocation, a failed call being surfaced.
C7_NoRequestReissued ==
    /\ BatchesRequestedOnce
    /\ op = "roadmap" => Len(requests) <= 1
    /\ op = "langchain" => Cardinality(OutlineRequests) <= 1
    /\ (op \in {"roadmap", "langchain"} /\ Len(answers) >= 1 /\ ~answers[1].ok)
          => pc = "raised"

\* C7 amended: each lesson batch is requested exactly once whether it
\* succeeds or fails; generate_roadmap_from_modules and the LangChain
\* outline requester send their prompt a second time exactly when the first
\* chain invocation raised, never a third time, and a failure of the second
\* call is surfaced.
C7_OneFallbackCall ==
    /\ BatchesRequestedOnce
    /\ op = "roadmap" =>
          /\ Len(requests) <= 2
          /\ Len(requests) = 2 <=> (Len(answers) >= 1 /\ ~answers[1].ok)
          /\ Len(requests) = 2 => requests[2].kind = "roadmap_fallback"
          /\ (Len(answers) = 2 /\ ~answers[2].ok)
                => pc = "raised" /\ error # "none"
    /\ op = "langchain" =>
          /\ Cardinality(OutlineRequests) <= 2
          /\ (\E i \in 1..Len(requests) : requests[i].kind = "outline_fallback")
                <=> (Len(answers) >= 1 /\ ~answers[1].ok)
          /\ \A i \in 1..Len(requests) :
                requests[i].kind = "outline_fallback" => i = 2
          /\ (Len(answers) >= 2 /\ Len(requests) >= 2
                /\ requests[2].kind = "outline_fallback" /\ ~answers[2].ok)
                => pc = "raised" /\ error # "none" /\ Len(requests) = 2

C7_Witness ==
    /\ op = "langchain"
    /\ pc = "done"
    /\ Len(requests) >= 4
    /\ requests[2].kind = "outline_fallback"
    /\ FailedBatches # {}

\* --------------------------------------------- properties of the extractor

\* the extractor has returned, directly or inside /api/validate
Extracted ==
    \/ xpc = "extracted"
    \/ xpc = "validated" /\ response.status = 200

prompt_lower == LowerTokens(prompt)

\* the patterns of each list whose match yields an accepted value
AcceptedTopic ==
    { k \in 1..Len(TopicPatterns) : TopicAccepted(TopicCandidate(prompt_lower, k)) }
AcceptedDuration ==
    { k \in 1..Len(DurationPatterns) :
        DurationAccepted(DurationCandidate(prompt_lower, k)) }
AcceptedAudience ==
    { k \in 1..Len(AudiencePatterns) :
        AudienceAccepted(AudienceCandidate(prompt_lower, k)) }
AcceptedLessons ==
    { k \in 1..Len(LessonsPatterns) :
        LessonsAccepted(LessonsCandidate(prompt_lower, k)) }

\* the patterns of each list that match the prompt
MatchingTopic ==
    { k \in 1..Len(TopicPatterns) : TopicCandidate(prompt_lower, k) # None }
MatchingDuration ==
    { k \in 1..Len(DurationPatterns) : DurationCandidate(prompt_lower, k) # None }
MatchingAudience ==
    { k \in 1..Len(AudiencePatterns) : AudienceCandidate(prompt_lower, k) # None }
MatchingLessons ==
    { k \in 1..Len(LessonsPatterns) : LessonsCandidate(prompt_lower, k) # None }

First(S) == CHOOSE k \in S : \A j \in S : k <= j

\* some keyword of some difficulty level occurs in the prompt
DifficultyKeywordPresent ==
    \E k \in 1..Len(DifficultyMappings) :
        \E w \in DifficultyMappings[k].keywords : HasWords(prompt_lower, w)

\* C8: for every prompt the four optional fields of the returned
\* parameters are non-null, and a field for which no pattern yields an
\* accepted value has its default: duration_weeks 4, difficulty
\* 'beginner', target_audience 'general learners', lessons_per_module 4.
C8_OptionalFieldsDefaulted ==
    Extracted =>
        /\ params.duration_weeks # None
        /\ params.difficulty # None
        /\ params.target_audience # None
        /\ params.lessons_per_module # None
        /\ AcceptedDuration = {} => params.duration_weeks = Some(4)
        /\ ~DifficultyKeywordPresent => params.difficulty = Some("beginner")
        /\ AcceptedAudience = {} =>
               params.target_audience = Some(<<"general", "learners">>)
        /\ AcceptedLessons = {} => params.lessons_per_module = Some(4)

\* a prompt whose duration and lessons patterns match values out of range
\* and whose audience pattern captures too short a value: all four defaults
C8_Witness ==
    /\ xpc = "extracted"
    /\ MatchingDuration # {} /\ AcceptedDuration = {}
    /\ MatchingLessons # {} /\ AcceptedLessons = {}
    /\ MatchingAudience # {} /\ AcceptedAudience = {}
    /\ ~DifficultyKeywordPresent
    /\ params.duration_weeks = Some(4)
    /\ params.difficulty = Some("beginner")
    /\ params.target_audience = Some(<<"general", "learners">>)
    /\ params.lessons_per_module = Some(4)

\* C9: the missing fields returned by the extractor are ['Course Topic']
\* exactly when the returned topic is null and empty otherwise, no other
\* field is ever reported, and /api/validate answers is_valid exactly when
\* the list is empty.
C9_OnlyTopicRequired ==
    /\ Extracted =>
           /\ params.topic = None => missing = <<"Course Topic">>
           /\ params.topic # None => missing = <<>>
    /\ (xpc = "validated" /\ response.status = 200) =>
           /\ response.missing = missing
           /\ response.params = params
           /\ response.is_valid <=> (missing = <<>>)

\* /api/validate has answered a prompt that names a topic but nothing else
C9_Witness ==
    /\ xpc = "validated"
    /\ response.status = 200
    /\ response.is_valid
    /\ params.topic # None
    /\ AcceptedDuration = {}
    /\ AcceptedAudience = {}
    /\ AcceptedLessons = {}
    /\ missing = <<>>

\* C10 as stated: each of topic, duration, audience and lessons-per-module
\* has the value of the first pattern of its list that matches the prompt.
C10_FirstMatchWins ==
    Extracted =>
        /\ MatchingTopic # {} =>
               params.topic = TopicCandidate(prompt_lower, First(MatchingTopic))
        /\ MatchingDuration # {} =>
               params.duration_weeks =
                   DurationCandidate(prompt_lower, First(MatchingDuration))
        /\ MatchingAudience # {} =>
               params.target_audience =
                   AudienceCandidate(prompt_lower, First(MatchingAudience))
        /\ MatchingLessons # {} =>
               params.lessons_per_module =
                   LessonsCandidate(prompt_lower, First(MatchingLessons))

\* C10: each of topic, duration, audience and lessons-per-module has the
\* value of the first pattern of its list whose match yields an accepted
\* value (longer than 3 characters, or within 1..52 weeks, 1..20 lessons);
\* a pattern that matches a rejected value is passed over, patterns after
\* the accepted one have no influence, and without an accepted value the
\* topic is null and the other fields have their defaults.
C10_FirstAcceptedWins ==
    Extracted =>
        /\ params.topic =
               IF AcceptedTopic = {} THEN None
               ELSE TopicCandidate(prompt_lower, First(AcceptedTopic))
        /\ params.duration_weeks =
               IF AcceptedDuration = {} THEN Some(DefaultWeeks)
               ELSE DurationCandidate(prompt_lower, First(AcceptedDuration))
        /\ params.target_audience =
               IF AcceptedAudience = {} THEN Some(<<"general", "learners">>)
               ELSE AudienceCandidate(prompt_lower, First(AcceptedAudience))
        /\ params.lessons_per_module =
               IF AcceptedLessons = {} THEN Some(DefaultLessonsPerModule)
               ELSE LessonsCandidate(prompt_lower, First(AcceptedLessons))

\* the first matching duration pattern captures a number of weeks out of
\* range and a later one an accepted number, which is the one returned
C10_Witness ==
    /\ xpc = "extracted"
    /\ MatchingDuration # {}
    /\ AcceptedDuration # {}
    /\ First(MatchingDuration) < First(AcceptedDuration)
    /\ params.duration_weeks =
           DurationCandidate(prompt_lower, First(AcceptedDuration))

\* ------------------------------------------------ properties of the course

RECURSIVE SumMinutes(_, _)
SumMinutes(lessons, k) ==
    IF k = 0 THEN 0 ELSE lessons[k].duration_minutes + SumMinutes(lessons, k - 1)

\* the minutes of the lessons placed in module m of the course
ModuleMinutes(m) == SumMinutes(modules[m].lessons, Len(modules[m].lessons))

\* d tenths of an hour is t minutes / 60 rounded to one decimal place: no
\* tenth is nearer to t / 6, and of two equally near tenths d is the even one
IsRounded(t, d) ==
    /\ t - 6 * d <= 3
    /\ 6 * d - t <= 3
    /\ (t - 6 * d = 3 \/ 6 * d - t = 3) => d % 2 = 0

\* C11: for every module of the course, duration_hours is the sum of the
\* duration_minutes of the lessons placed in the module (45 for each
\* placeholder) divided by 60 and rounded to one decimal place.
C11_DurationHoursRounded ==
    \A m \in 1..Len(modules) : IsRounded(ModuleMinutes(m), modules[m].duration_tenths)

\* a returned course with a module of placeholders and model lessons whose
\* minutes / 60 has a second decimal, and a module that is a tie
C11_Witness ==
    /\ pc = "done"
    /\ Len(modules) >= 2
    /\ \E m \in 1..Len(modules) :
          /\ ModuleMinutes(m) % 6 \notin {0, 3}
          /\ \E i, j \in 1..Len(modules[m].lessons) :
                /\ modules[m].lessons[i].content = "Content to be developed."
                /\ modules[m].lessons[i].duration_minutes = 45
                /\ modules[m].lessons[j].content = "generated text"
    /\ \E m \in 1..Len(modules) : ModuleMinutes(m) % 6 = 3

\* C13: the returned course has exactly as many modules as the modules list
\* of the outline finally used, in the same order, each with the title and
\* the description of its outline entry, whether the list is shorter or
\* longer than the max(4, duration_weeks) modules asked for.
C13_ModulesAsInOutline ==
    /\ Len(modules) <= Len(outline.modules)
    /\ \A i \in 1..Len(modules) :
          /\ modules[i].title = outline.modules[i].title
          /\ modules[i].description = outline.modules[i].description
    /\ pc = "done" /\ op \in {"plain", "langchain"} =>
          Len(modules) = Len(outline.modules)

\* a course returned with one module more than asked for
C13_Witness ==
    /\ pc = "done"
    /\ op \in {"plain", "langchain"}
    /\ Len(outline.modules) = RequestedModules + 1
    /\ Len(modules) = RequestedModules + 1
    /\ modules[RequestedModules + 1].title =
           outline.modules[RequestedModules + 1].title

\* ----------------------------------------------- properties of the exports

\* the textual values of the fields of a lesson
LessonFields(lesson) ==
    {lesson.title, IntToStr(lesson.duration_minutes), lesson.content}
    \cup { lesson.learning_objectives[i] : i \in 1..Len(lesson.learning_objectives) }
    \cup { lesson.key_points[i] : i \in 1..Len(lesson.key_points) }
    \cup { lesson.activities[i] : i \in 1..Len(lesson.activities) }
    \cup { lesson.assessment_questions[i].question :
             i \in 1..Len(lesson.assessment_questions) }
    \cup { lesson.assessment_questions[i].answer :
             i \in 1..Len(lesson.assessment_questions) }

\* the textual values of the fields of a module and of its lessons
ModuleFields(module) ==
    {module.title, module.description, FloatToStr(module.duration_tenths)}
    \cup UNION { LessonFields(module.lessons[l]) : l \in 1..Len(module.lessons) }

\* the textual values of the fields of a course other than its difficulty
FieldsButDifficulty(c) ==
    {c.title, c.description, c.target_audience, IntToStr(c.duration_weeks)}
    \cup { c.prerequisites[i] : i \in 1..Len(c.prerequisites) }
    \cup { c.learning_outcomes[i] : i \in 1..Len(c.learning_outcomes) }
    \cup UNION { ModuleFields(c.modules[m]) : m \in 1..Len(c.modules) }

\* the textual values of all fields of a course
CourseFields(c) == FieldsButDifficulty(c) \cup {c.difficulty_level}

\* C12 as stated: the Markdown text and the HTML text of a course each
\* contain, verbatim, the value of every field of the course, of its modules
\* and of its lessons.
C12_ExportsContainEveryField ==
    /\ md # None => \A f \in CourseFields(course_dict) : Contains(md[1], f)
    /\ html # None => \A f \in CourseFields(course_dict) : Contains(html[1], f)

\* C12: the Markdown text of a course contains, verbatim, the value of
\* every field of the course, of its modules and of its lessons; the HTML
\* text contains every one of them but the difficulty level, which it
\* contains in title case (each word capitalised).
C12_ExportsContainFields ==
    /\ md # None => \A f \in CourseFields(course_dict) : Contains(md[1], f)
    /\ html # None =>
          /\ \A f \in FieldsButDifficulty(course_dict) : Contains(html[1], f)
          /\ Contains(html[1], Title(course_dict.difficulty_level))

\* both texts of a course of difficulty "beginner" with modules, lessons and
\* list items; the HTML text holds "Beginner" and not "beginner"
C12_Witness ==
    /\ md # None
    /\ html # None
    /\ course_dict.difficulty_level # Title(course_dict.difficulty_level)
    /\ Len(course_dict.modules) >= 2
    /\ Len(course_dict.modules[2].lessons) >= 2
    /\ Len(course_dict.modules[2].lessons[2].assessment_questions) >= 2
    /\ Len(course_dict.prerequisites) >= 2
    /\ Contains(md[1], course_dict.difficulty_level)
    /\ ~Contains(html[1], course_dict.difficulty_level)

\* --------------------------------------------- properties of the web app

\* requests 1..k answered, the last successful /api/generate-course among
\* them has not been followed by /api/clear
CourseStoredAfter(k) ==
    \E i \in 1..k :
        /\ log[i].kind = "generate-course"
        /\ log[i].status = 200
        /\ \A j \in (i + 1)..k : log[j].kind # "clear"

\* the same for /api/generate-roadmap
RoadmapStoredAfter(k) ==
    \E i \in 1..k :
        /\ log[i].kind = "generate-roadmap"
        /\ log[i].status = 200
        /\ \A j \in (i + 1)..k : log[j].kind # "clear"

\* /api/clear has been answered among requests 1..k
ClearedBefore(k) == \E i \in 1..k : log[i].kind = "clear"

\* no handler is running
Quiet == inflight = {}

\* C14 as stated: /api/generate-roadmap answers 400 and stores nothing
\* whenever no course is stored, and a roadmap is generated and stored only
\* after a successful /api/generate-course not since followed by /api/clear.
C14_RoadmapNeedsCourse ==
    /\ \A k \in 1..Len(log) :
          log[k].kind = "generate-roadmap" =>
             /\ ~CourseStoredAfter(k - 1) => log[k].status = 400
             /\ log[k].status = 200 => CourseStoredAfter(k - 1)
    /\ course_storage.course_roadmap # None => RoadmapStoredAfter(Len(log))

\* C14: with no course stored /api/generate-roadmap stores nothing and
\* answers 400, or 500 when no API key is configured (the key is checked
\* first); a roadmap is generated and stored only after a successful
\* /api/generate-course not since followed by /api/clear.
C14_RoadmapNeedsCourseOrKey ==
    /\ \A k \in 1..Len(log) :
          log[k].kind = "generate-roadmap" =>
             /\ ~CourseStoredAfter(k - 1) =>
                   log[k].status = (IF api_key THEN 400 ELSE 500)
             /\ log[k].status = 200 => CourseStoredAfter(k - 1)
    /\ course_storage.course_roadmap # None => RoadmapStoredAfter(Len(log))

\* a roadmap request refused before any course, one served after a course
\* was stored, and one refused after the clear
C14_Witness ==
    /\ Quiet
    /\ Len(log) = 4
    /\ log[1].kind = "generate-course" /\ log[1].status = 200
    /\ log[2].kind = "generate-roadmap" /\ log[2].status = 200
    /\ log[3].kind = "clear"
    /\ log[4].kind = "generate-roadmap" /\ log[4].status = 400
    /\ course_storage = EmptyStorage

\* the status of request k where the content it needs is not stored
RefusedAfterClear(k, status) ==
    /\ (log[k].kind = "export" /\ ~CourseStoredAfter(k - 1)) =>
           log[k].status = 400
    /\ (log[k].kind = "export-roadmap" /\ ~RoadmapStoredAfter(k - 1)) =>
           log[k].status = 400
    /\ (log[k].kind = "generate-roadmap" /\ ~CourseStoredAfter(k - 1)) =>
           log[k].status = status

\* /api/clear succeeds and leaves both entries of course_storage empty
ClearEmpties ==
    /\ \A k \in 1..Len(log) : log[k].kind = "clear" => log[k].status = 200
    /\ (Quiet /\ Len(log) > 0 /\ log[Len(log)].kind = "clear") =>
           course_storage = EmptyStorage

\* C15 as stated: /api/clear always succeeds and empties the stored course
\* and roadmap; after it every export, roadmap export and roadmap generation
\* answers 400 until a later generation has stored what the request needs.
C15_ClearedUntilGenerated ==
    /\ ClearEmpties
    /\ \A k \in 1..Len(log) : ClearedBefore(k - 1) => RefusedAfterClear(k, 400)

\* C15: /api/clear always succeeds and empties the stored course and
\* roadmap; after it every export and roadmap export answers 400 and every
\* roadmap generation answers 400, or 500 when no API key is configured,
\* until a later generation has stored what the request needs.
C15_ClearedUntilGeneratedOrKey ==
    /\ ClearEmpties
    /\ \A k \in 1..Len(log) :
          ClearedBefore(k - 1) =>
             RefusedAfterClear(k, IF api_key THEN 400 ELSE 500)

\* a course and a roadmap were stored and cleared, and the roadmap export
\* that follows is refused
C15_Witness ==
    /\ Quiet
    /\ Len(log) = 4
    /\ log[1].kind = "generate-course" /\ log[1].status = 200
    /\ log[2].kind = "generate-roadmap" /\ log[2].status = 200
    /\ log[3].kind = "clear" /\ log[3].status = 200
    /\ log[4].kind = "export-roadmap" /\ log[4].status = 400
    /\ log[4].input = "json"
    /\ course_storage = EmptyStorage

\* the model responses two handlers received do not differ: they are the
\* same, or one of the handlers made no call
SameResponses(r1, r2) ==
    \/ r1.outcome = r2.outcome
    \/ r1.outcome = "none"
    \/ r2.outcome = "none"

\* two answered requests were answered alike
SameAnswer(r1, r2) == r1.status = r2.status /\ r1.body = r2.body

GenerationKinds == {"generate-course", "generate-roadmap"}

SeqOutcomes(r) == IF r.outcome = "none" THEN AgentOutcomes ELSE {r.outcome}

\* the date request r reads when it is handled alone
SeqDates(r) == IF r.today = None THEN Dates ELSE {r.today[1]}

\* the contents course_storage may have after request r is handled alone
\* from contents st
ApplySequentially(r, st) ==
    IF r.kind = "clear" THEN {EmptyStorage}
    ELSE IF ~api_key THEN {st}
    ELSE IF r.kind = "generate-course"
    THEN IF r.input = <<>> \/ MissingFields(ExtractedParams[r.input]) # <<>>
         THEN {st}
         ELSE {IF o = "raise"
               THEN st
               ELSE [st EXCEPT !.course_content =
                        Some(StoredCourse(ExtractedParams[r.input], o))] :
               o \in SeqOutcomes(r)}
    ELSE IF r.kind = "generate-roadmap"
    THEN IF st.course_content = None
         THEN {st}
         ELSE {IF x[1] = "raise"
               THEN st
               ELSE [st EXCEPT !.course_roadmap =
                        Some(StoredRoadmap(st.course_content[1], x[2], x[1]))] :
               x \in SeqOutcomes(r) \X SeqDates(r)}
    ELSE {st}

\* the contents course_storage may have after the requests log[k], k in S,
\* are handled one after the other in some order, from contents st
RECURSIVE SequentialStorages(_, _)
SequentialStorages(S, st) ==
    IF S = {}
    THEN {st}
    ELSE UNION {UNION {SequentialStorages(S \ {k}, st2) :
                       st2 \in ApplySequentially(log[k], st)} : k \in S}

\* C20: once overlapping generate-course, generate-roadmap and clear
\* requests have all been answered, course_storage holds what handling the
\* same requests one after the other in some order would have left.
C20_Serializable ==
    Quiet => course_storage \in SequentialStorages(1..Len(log), EmptyStorage)

\* all requests answered, and course_storage holds a roadmap without a
\* course
C20_Witness ==
    /\ Quiet
    /\ threads > 1
    /\ course_storage.course_content = None
    /\ course_storage.course_roadmap # None

\* ------------------------------------- properties of the roadmap agent

\* the sum of a sequence of numbers
RECURSIVE SumSeq(_)
SumSeq(q) == IF q = <<>> THEN 0 ELSE q[1] + SumSeq(Tail(q))

\* tenths is hundredths rounded to one decimal: the nearest tenth, the even
\* one of the two nearest on a tie
IsNearestTenth(hundredths, tenths) ==
    /\ 10 * tenths - hundredths <= 5
    /\ hundredths - 10 * tenths <= 5
    /\ (10 * tenths - hundredths \in {5, -5}) => tenths % 2 = 0

\* C17: every roadmap returned has total_estimated_hours equal to the sum
\* of its weekly estimated_hours rounded to one decimal (0 for an empty
\* schedule), and total_duration_weeks and total_modules equal to the
\* requested duration_weeks and the number of input modules.
C17_RoadmapTotals ==
    roadmap_data # None =>
        LET r == roadmap_data[1]
        IN  /\ IsNearestTenth(25 * SumSeq(r.weekly_schedule),
                              r.total_estimated_tenths)
            /\ r.weekly_schedule = <<>> => r.total_estimated_tenths = 0
            /\ r.total_duration_weeks = roadmap_args.duration_weeks
            /\ r.total_modules = roadmap_args.modules

\* a roadmap whose schedule has more weeks than were requested and whose
\* hours sum to 5.75, halfway between two tenths
C17_Witness ==
    /\ roadmap_data # None
    /\ Len(roadmap_data[1].weekly_schedule) > roadmap_args.duration_weeks
    /\ SumSeq(roadmap_data[1].weekly_schedule) = 23
    /\ roadmap_data[1].total_estimated_tenths = 58
    /\ roadmap_data[1].total_modules = 2

\* the day after a date
NextDay(dt) ==
    IF dt.day < DaysInMonth(dt.year, dt.month)
    THEN [dt EXCEPT !.day = dt.day + 1]
    ELSE IF dt.month < 12
    THEN [dt EXCEPT !.month = dt.month + 1, !.day = 1]
    ELSE [year |-> dt.year + 1, month |-> 1, day |-> 1]

\* the date k days after a date
RECURSIVE DaysAfter(_, _)
DaysAfter(dt, k) == IF k = 0 THEN dt ELSE DaysAfter(NextDay(dt), k - 1)

\* start_date was given and is a date
ValidStartDate == roadmap_args.start_date # None /\
                  roadmap_args.start_date[1] # <<>> /\
                  Strptime(roadmap_args.start_date[1]) # None

\* the date 7 * duration_weeks days after start_date
ClaimedEnd ==
    DaysAfter(Strptime(roadmap_args.start_date[1])[1],
              7 * roadmap_args.duration_weeks)

\* C18 as stated: given a valid start_date the roadmap's end_date is the
\* date 7 * duration_weeks days later and start_date is returned unchanged;
\* given none, both are null.
C18_EndDateAfterWeeks ==
    roadmap_data # None =>
        LET r == roadmap_data[1]
        IN  /\ ValidStartDate =>
                  /\ r.end_date = Some(Strftime(ClaimedEnd))
                  /\ r.start_date = roadmap_args.start_date
            /\ roadmap_args.start_date = None =>
                  r.start_date = None /\ r.end_date = None

\* C18: given a valid start_date the roadmap's start_date is returned
\* unchanged and its end_date is the date 7 * duration_weeks days later,
\* or null where that date lies after year 9999; given none, both are null.
C18_EndDateAfterWeeksOrNull ==
    roadmap_data # None =>
        LET r == roadmap_data[1]
        IN  /\ ValidStartDate =>
                  /\ r.end_date = IF ClaimedEnd.year <= MAXYEAR
                                  THEN Some(Strftime(ClaimedEnd))
                                  ELSE None
                  /\ r.start_date = roadmap_args.start_date
            /\ roadmap_args.start_date = None =>
                  r.start_date = None /\ r.end_date = None

\* two weeks from 2026-12-28 end in the next year
C18_Witness ==
    /\ roadmap_data # None
    /\ roadmap_args.start_date = Some(<<"2", "0", "2", "6", "-", "1", "2", "-", "2", "8">>)
    /\ roadmap_args.duration_weeks = 2
    /\ roadmap_data[1].start_date = roadmap_args.start_date
    /\ roadmap_data[1].end_date = Some(<<"2", "0", "2", "7", "-", "0", "1", "-", "1", "1">>)

\* ---------------------------------------- properties of learning outcomes

\* C19: a LangChain course generated with a non-empty
\* custom_learning_outcomes list has exactly that list, in order, as its
\* learning_outcomes whatever the outline holds; generated with none, it
\* has the outline's learning_outcomes.
C19_CustomOutcomesWin ==
    (op = "langchain" /\ pc = "done") =>
        /\ (custom_learning_outcomes # None /\ custom_learning_outcomes[1] # <<>>)
              => learning_outcomes = custom_learning_outcomes[1]
        /\ custom_learning_outcomes = None =>
              learning_outcomes =
                 (IF outline.learning_outcomes = None
                  THEN <<>>
                  ELSE outline.learning_outcomes[1])

\* a course returned with the custom outcomes although the outline held
\* other ones
C19_Witness ==
    /\ op = "langchain"
    /\ pc = "done"
    /\ custom_learning_outcomes = Some(<<"outcome 9", "outcome 1">>)
    /\ outline.learning_outcomes = Some(ModelOutcomes)
    /\ learning_outcomes = <<"outcome 9", "outcome 1">>

\* -------------------------------- properties of the stored course and roadmap

\* C21: whenever a course and a roadmap are both stored, the roadmap was
\* generated from the stored course: its course_title, total_modules and
\* total_duration_weeks are the course's title, module count and
\* duration_weeks.
C21_RoadmapOfStoredCourse ==
    (Quiet /\ course_storage.course_content # None
           /\ course_storage.course_roadmap # None) =>
        LET course == course_storage.course_content[1]
            roadmap == course_storage.course_roadmap[1]
        IN  /\ roadmap.course_title = course.title
            /\ roadmap.total_modules = course.modules
            /\ roadmap.total_duration_weeks = course.duration_weeks

\* one request at a time: a second course was generated after the roadmap,
\* and the roadmap of the first course is still stored beside it
C21_Witness ==
    /\ Quiet
    /\ threads = 1
    /\ Len(log) = 3
    /\ log[1].kind = "generate-course" /\ log[1].status = 200
    /\ log[2].kind = "generate-roadmap" /\ log[2].status = 200
    /\ log[3].kind = "generate-course" /\ log[3].status = 200
    /\ course_storage.course_content = log[3].body
    /\ course_storage.course_roadmap = log[2].body
    /\ log[2].body[1].course_title = log[1].body[1].title
    /\ log[2].body[1].course_title # log[3].body[1].title

\* C22: between non-overlapping requests a stored roadmap implies a stored
\* course.
C22_RoadmapImpliesCourse ==
    Quiet => (course_storage.course_roadmap # None =>
                 course_storage.course_content # None)

\* a roadmap is stored with its course after an earlier clear
C22_Witness ==
    /\ Quiet
    /\ ClearedBefore(Len(log))
    /\ course_storage.course_roadmap # None
    /\ course_storage.course_content # None

\* the request answered by this step, if any
Answered == Len(log') = Len(log) + 1
Answer1 == log'[Len(log')]

\* C23: course_storage is changed only by a successful /api/generate-course
\* (course_content set, course_roadmap unchanged), a successful
\* /api/generate-roadmap (course_roadmap set, course_content unchanged) and
\* /api/clear; /api/validate, the exports and every request answered with
\* an error leave both entries unchanged.
C23_StorageFrame ==
    [][/\ course_storage' # course_storage =>
             \/ \E h \in inflight \cup inflight' : h.kind = "clear"
             \/ /\ Answered
                /\ Answer1.kind = "generate-course"
                /\ Answer1.status = 200
                /\ course_storage'.course_content = Answer1.body
                /\ course_storage'.course_roadmap = course_storage.course_roadmap
             \/ /\ Answered
                /\ Answer1.kind = "generate-roadmap"
                /\ Answer1.status = 200
                /\ course_storage'.course_roadmap = Answer1.body
                /\ course_storage'.course_content = course_storage.course_content
       /\ (Answered /\ (\/ Answer1.kind \in {"validate", "export", "export-roadmap"}
                        \/ Answer1.status # 200)) =>
             course_storage' = course_storage]_vars

\* a course and a roadmap are stored, then a course generation fails and a
\* validation is answered: both entries are as they were
C23_Witness ==
    /\ Quiet
    /\ Len(log) = 4
    /\ log[1].kind = "generate-course" /\ log[1].status = 200
    /\ log[2].kind = "generate-roadmap" /\ log[2].status = 200
    /\ log[3].kind = "generate-course" /\ log[3].status = 500
    /\ log[4].kind = "validate"
    /\ course_storage.course_content = log[1].body
    /\ course_storage.course_roadmap = log[2].body

\* the extractor reports the topic missing for the prompt
TopicMissing(course_prompt) ==
    \E i \in 1..Len(MissingFields(ExtractedParams[course_prompt])) :
        MissingFields(ExtractedParams[course_prompt])[i] = "Course Topic"

\* C24: /api/generate-course answers with an error, no agent constructed
\* and no model request sent, when the API key is unset (500), else when
\* the prompt is empty (400), else when the extractor reports the topic
\* missing (400); an exception raised during generation is answered with
\* 500 and success false.
C24_GenerateCourseErrors ==
    \A k \in 1..Len(log) :
        log[k].kind = "generate-course" =>
            /\ ~api_key =>
                  /\ log[k].status = 500
                  /\ ~log[k].success
                  /\ log[k].outcome = "none"
            /\ (api_key /\ log[k].input = <<>>) =>
                  /\ log[k].status = 400
                  /\ ~log[k].success
                  /\ log[k].outcome = "none"
            /\ (api_key /\ log[k].input # <<>> /\ TopicMissing(log[k].input)) =>
                  /\ log[k].status = 400
                  /\ ~log[k].success
                  /\ log[k].outcome = "none"
            /\ log[k].outcome = "raise" =>
                  log[k].status = 500 /\ ~log[k].success

\* with a key: a prompt without a topic is refused and a failed generation
\* is answered 500
C24_Witness ==
    /\ api_key
    /\ Len(log) >= 3
    /\ log[1].kind = "generate-course" /\ log[1].input = <<>>
    /\ log[1].status = 400
    /\ log[2].kind = "generate-course" /\ TopicMissing(log[2].input)
    /\ log[2].status = 400
    /\ log[3].kind = "generate-course" /\ log[3].outcome = "raise"
    /\ log[3].status = 500

\* ------------------------------------------- properties of the batch loop

\* ceil(k / 2)
CeilHalf(k) == (k + 1) \div 2

\* the batch requests of module j sent before request i
EarlierBatches(j, i) == {k \in BatchIdx(j) : k < i}

\* the batch calls of every module carry the numbers 1, 2, ... in the order
\* in which they are made
BatchNumbersInOrder ==
    \A i \in 1..Len(requests) :
        requests[i].kind = "batch" =>
            requests[i].batch_num =
               Cardinality(EarlierBatches(requests[i].module, i)) + 1

\* the number of batch calls: ceil(n / 2) for every module whose
\* generate_module_content has returned, none when n <= 0, never more
BatchCallCount ==
    /\ \A j \in ReturnedCalls :
          Cardinality(BatchIdx(j)) = (IF n > 0 THEN CeilHalf(n) ELSE 0)
    /\ \A i \in 1..Len(requests) :
          requests[i].kind = "batch" =>
             /\ n > 0
             /\ Cardinality(BatchIdx(requests[i].module)) <= CeilHalf(n)

\* a batch call is outstanding only while lessons remain to be asked for
NoCallAtZero == pc = "batch" => remaining > 0

\* every answered batch call brings the remaining count strictly closer to
\* zero, never below it, and the loop goes on only while it is positive
RemainingDecreases ==
    pc = "batch" =>
        /\ remaining' < remaining
        /\ remaining' >= 0
        /\ pc' = "batch" <=> remaining' > 0
        /\ pc' # "batch" => pc' = "module_return"

\* C25: generate_module_content ends after exactly ceil(n / 2) batch calls
\* (none when n <= 0), the calls numbered 1, 2, ... in increasing order and
\* none made once the remaining count has reached zero, whatever the batch
\* outcomes; the loop ends because every answered call lowers the remaining
\* count.
C25_BatchLoopTerminates ==
    [][/\ BatchNumbersInOrder'
       /\ BatchCallCount'
       /\ NoCallAtZero'
       /\ RemainingDecreases]_vars

\* a module of three lessons was produced by two batch calls, the first of
\* which failed
C25_Witness ==
    /\ pc = "done"
    /\ n = 3
    /\ Cardinality(BatchIdx(1)) = 2
    /\ \E i \in BatchIdx(1) : requests[i].batch_num = 2 /\ requests[i].size = 1
    /\ \E i \in BatchIdx(1) : requests[i].batch_num = 1 /\ ~answers[i].ok

\* the places where generate_complete_course waits for an outline
OutlinePcs == {"outline", "regen", "lc_outline", "lc_fallback"}

\* the step in which an outline becomes the one the course is built from:
\* it was parsed and no other outline request follows
OutlineAdopted ==
    /\ pc \in OutlinePcs
    /\ last'.kind = "ok"
    /\ pc' \notin OutlinePcs

BatchRequests == {i \in 1..Len(requests) : requests[i].kind = "batch"}

\* C26: when the outline finally used by generate_complete_course has a
\* missing or empty modules list, the call raises ValueError, sends no lesson
\* batch request and returns no course; otherwise the generation of the first
\* module begins and a returned course has at least one module.
C26_NoModulesRaises ==
    [][/\ OutlineAdopted =>
            IF OutlineModuleList(outline') = <<>>
            THEN /\ pc' = "raised"
                 /\ error' = "ValueError"
                 /\ requests' = requests
                 /\ modules' = <<>>
            ELSE /\ pc' \in {"batch", "module_return"}
                 /\ modIdx' = 1
                 /\ error' = "none"
       /\ (pc' \in {"batch", "module_return", "done"} /\ op' \in {"plain", "langchain"})
            => OutlineModuleList(outline') # <<>>
       /\ (pc' = "done" /\ op' \in {"plain", "langchain"})
            => Len(modules') = Len(OutlineModuleList(outline')) /\ Len(modules') >= 1
       /\ (pc' = "raised" /\ last'.kind = "ok")
            => /\ OutlineModuleList(outline') = <<>>
               /\ BatchRequests' = {}
               /\ modules' = <<>>]_vars

C26_Witness ==
    /\ op = "langchain"
    /\ pc = "raised"
    /\ error = "ValueError"
    /\ last.kind = "ok"
    /\ outline.has_title
    /\ OutlineModuleList(outline) = <<>>
    /\ BatchRequests = {}

\* ------------------------------------------- the response cleanup, in steps
Return(v) == [kind |-> "return", error |-> "none", val |-> v]
Raised(e) == [kind |-> "raise", error |-> e, val |-> NoValue]

\* self.client.generate_content(prompt) answers one of the three callers
ModelReplies ==
    /\ cpc = "idle"
    /\ \E r \in Replies, f \in {"generate_course_outline", "_generate_lessons_batch",
                                "_call_api_and_parse"} :
        /\ reply' = r
        /\ cpc' = f
    /\ UNCHANGED <<content, returned>>
    /\ UNCHANGED <<agentVars, extractVars, exportVars, flaskVars, roadmapVars,
                   outcomeVars>>

\* the cleanup followed by: if not content: raise ValueError(...);
\* return json.loads(content)
ParseOrRaise(f) ==
    /\ cpc = f
    /\ content' = Some(Cleanup(reply.text))
    /\ returned' = IF Cleanup(reply.text) = <<>> THEN Raised("ValueError")
                   ELSE IF JsonLoads(Cleanup(reply.text)).ok
                   THEN Return(JsonLoads(Cleanup(reply.text)).val)
                   ELSE Raised("JSONDecodeError")
    /\ cpc' = "done"
    /\ UNCHANGED reply
    /\ UNCHANGED <<agentVars, extractVars, exportVars, flaskVars, roadmapVars,
                   outcomeVars>>

\* generate_course_outline from response.text on
GenerateCourseOutlineParse == ParseOrRaise("generate_course_outline")

\* _call_api_and_parse from response.text on
CallApiAndParse == ParseOrRaise("_call_api_and_parse")

\* _generate_lessons_batch from response.text on: json.loads(content.strip())
\* inside try, return [] in the except branch
GenerateLessonsBatchParse ==
    /\ cpc = "_generate_lessons_batch"
    /\ content' = Some(Cleanup(reply.text))
    /\ returned' = IF JsonLoads(Cleanup(reply.text)).ok
                   THEN Return(JsonLoads(Cleanup(reply.text)).val)
                   ELSE Return(JsonValue("arr", <<>>, <<>>))
    /\ cpc' = "done"
    /\ UNCHANGED reply
    /\ UNCHANGED <<agentVars, extractVars, exportVars, flaskVars, roadmapVars,
                   outcomeVars>>

InitCleanup ==
    /\ AgentAt("off")
    /\ ExtractOff
    /\ ExportOff
    /\ FlaskOff
    /\ reply = NoReply
    /\ content = None
    /\ returned = NoReturn
    /\ cpc = "idle"

NextCleanup ==
    \/ ModelReplies
    \/ GenerateCourseOutlineParse
    \/ CallApiAndParse
    \/ GenerateLessonsBatchParse

SpecCleanup == InitCleanup /\ [][NextCleanup]_vars

\* the function that received reply: the variable cpc holds it until the
\* cleanup is done, the shape of returned tells it afterwards
CleanupDone == cpc = "done"

\* if lessons: ... else: <placeholders> in generate_module_content
BatchFailed(ret) == ret.kind = "return" /\ Falsy(ret.val)

\* C27: for every JSON text J, a response that is J alone, J between
\* "```json" and "```", or J between "```" and "```", with whitespace around,
\* is decoded to the value of J, the cleanup leaving exactly J; a response
\* that is empty after the cleanup makes generate_course_outline raise
\* ValueError and makes a lesson batch count as failed.
C27_FenceTransparent ==
    CleanupDone =>
        /\ JsonLoads(reply.body).ok =>
              /\ content = Some(reply.body)
              /\ returned = Return(JsonLoads(reply.body).val)
        /\ content = Some(<<>>) =>
              \/ returned = Raised("ValueError")
              \/ BatchFailed(returned) /\ returned.val.t = "arr"

C27_Witness ==
    /\ CleanupDone
    /\ reply.fence = "json"
    /\ reply.body = <<"[", "1", ",", " ", "\"", BackTick, "\"", "]">>
    /\ reply.text # FenceJson \o reply.body \o Fence
    /\ returned.kind = "return"
    /\ Len(returned.val.items) = 2

\* generate_complete_course has an outline and has set course_data["title"]
TitleSet == pc \in {"batch", "module_return", "done", "raised"} /\ last.kind = "ok"

\* the "title" of the outline as the model answered it
ModelTitle == last.title[1]

\* course_data["title"] has a topic word of more than three characters in it,
\* whatever the case
TitleHasLongWord ==
    \E i, j \in 1..Len(topic) :
        /\ IsWordAt(topic, i, j)
        /\ j - i + 1 > KeywordMinLen
        /\ OccursIn(Lower(topic), i, j, Lower(title))

\* C28 as stated: CourseContentAgentLangChain.generate_complete_course sends
\* no second outline request because of a topic mismatch; the title of the
\* course either contains, case-insensitively, a topic word longer than 3
\* characters or is "<topic> - <Difficulty> Course"; and the title the model
\* gave is kept whenever it contains the topic.
C28_ModelTitleKept ==
    op = "langchain" =>
        /\ ~StrictRequestSent
        /\ TitleSet => TitleHasLongWord \/ title = ForcedTitle(topic)
        /\ (TitleSet /\ last.title # None /\ Contains(ModelTitle, topic))
              => title = ModelTitle

\* the model answered "sql 101" to the topic "sql" and the course is titled
\* "sql - Beginner Course"
C28_Witness ==
    /\ op = "langchain"
    /\ pc = "done"
    /\ topic = TopicSql
    /\ last.kind = "ok"
    /\ last.title = Some(TitleSql101)
    /\ title = ForcedTitle(TopicSql)
    /\ ~StrictRequestSent

\* the numbers the duration and the lessons patterns capture in the prompt
CapturedWeeks ==
    { DurationCandidate(prompt_lower, k)[1] : k \in MatchingDuration }
CapturedLessons ==
    { LessonsCandidate(prompt_lower, k)[1] : k \in MatchingLessons }

\* C29: for every prompt extract_course_parameters returns duration_weeks
\* as an integer from 1 to 52, lessons_per_module as an integer from 1 to 20,
\* and topic as null or a string of more than 3 characters, so that a number
\* captured outside its range is not what is returned.
C29_ParamsInRange ==
    Extracted =>
        /\ params.duration_weeks # None
        /\ params.duration_weeks[1] \in MinWeeks..MaxWeeks
        /\ params.lessons_per_module # None
        /\ params.lessons_per_module[1] \in MinLessonsPerModule..MaxLessonsPerModule
        /\ params.topic # None => StrLen(params.topic[1]) > MinValueLen

\* a prompt with 60 weeks, 0 lessons per module and the topic "sql": the
\* numbers are captured and the defaults returned
C29_Witness ==
    /\ xpc = "extracted"
    /\ 60 \in CapturedWeeks
    /\ 0 \in CapturedLessons
    /\ MatchingTopic # {} /\ AcceptedTopic = {}
    /\ params.duration_weeks = Some(DefaultWeeks)
    /\ params.lessons_per_module = Some(DefaultLessonsPerModule)
    /\ params.topic = None

\* the levels, by their place in the fixed order, that have a synonym among
\* the words of the prompt
LevelsPresent ==
    { k \in 1..Len(DifficultyMappings) :
        \E w \in DifficultyMappings[k].keywords : HasWords(prompt_lower, w) }

\* the place in the prompt of the first synonym of level k
FirstSynonymAt(k) ==
    First({ i \in 1..Len(prompt_lower) :
              \E w \in DifficultyMappings[k].keywords :
                  /\ i + Len(w) - 1 <= Len(prompt_lower)
                  /\ SubSeq(prompt_lower, i, i + Len(w) - 1) = w })

LevelOrder == <<"beginner", "intermediate", "advanced">>

\* C30: the difficulty returned is 'beginner', 'intermediate' or 'advanced';
\* when the prompt holds synonyms of more than one level, it is the first
\* level in the order beginner, intermediate, advanced that has a synonym
\* present as a whole word, wherever the synonyms stand in the prompt.
C30_FirstLevelInOrder ==
    Extracted =>
        /\ params.difficulty \in {Some(LevelOrder[k]) : k \in 1..3}
        /\ \A k \in 1..3 : DifficultyMappings[k].level = LevelOrder[k]
        /\ LevelsPresent # {} => params.difficulty = Some(LevelOrder[First(LevelsPresent)])
        /\ LevelsPresent = {} => params.difficulty = Some("beginner")

\* "advanced" stands before "intermediate" in the prompt, "basics" is no
\* synonym, and intermediate is returned
C30_Witness ==
    /\ xpc = "extracted"
    /\ LevelsPresent = {2, 3}
    /\ FirstSynonymAt(3) < FirstSynonymAt(2)
    /\ HasWords(prompt_lower, <<"basics">>)
    /\ params.difficulty = Some("intermediate")

====
